---------------------------- MODULE Spec2Model ----------------------------
(***************************************************************************)
(* hocker-node-agent: the zero-trust command pipeline.                     *)
(*                                                                         *)
(*   - lib/signature.ts : canonicalJson, the four signing schemes and      *)
(*                        verifyCommand                                    *)
(*   - index.ts         : the polling worker (getControls, fetchQueued,    *)
(*                        claimQueued, runCommand, finishOk/finishErr/     *)
(*                        cancel, loop), run by several worker processes   *)
(*                        against one backend                              *)
(*                                                                         *)
(* Text is a sequence of tokens.  The token alphabet is prefix-free (no    *)
(* token is the concatenation or a prefix of others), so two token         *)
(* sequences are equal exactly when the strings they spell are equal, and  *)
(* \o is string concatenation.  The separators "|", ":" and "." are tokens *)
(* of their own and may occur inside field values.                         *)
(*                                                                         *)
(* JavaScript values are records tagged by t: undefined, null, str, num,   *)
(* arr, obj (key/value pairs in insertion order) and mac (the digest of an *)
(* HMAC-SHA256, which is taken to be collision-free: the digest determines *)
(* the key, the message and the output encoding).                          *)
(*                                                                         *)
(* A backend call either takes effect and reports success, or reports an   *)
(* error and has no effect; each call is one atomic step.                  *)
(***************************************************************************)
EXTENDS Integers, Sequences, FiniteSets, Bags, TLC

VARIABLES
    rows,       \* table commands: id -> row
    controls,   \* table system_controls, row (PROJECT_ID, "global")
    events,     \* table events: a bag of inserted event rows
    pc,         \* per worker: the await the worker is at
    cyc,        \* per worker: <<controls>> of this loop iteration, <<controls, controls2>>
                \* once read in the for body, <<>> before the first read
    queued,     \* per worker: what remains of `queued` in the for loop
    cmd,        \* per worker: `cmd`, the row claimQueued returned (<<>> if none)
    out,        \* per worker: the value runCommand returned or the message it threw
    hist,       \* history: claim attempts, runCommand calls, executor actions
    insertFails,\* the outcomes an insert into events can have: {FALSE}, or BOOLEAN
    sig,        \* the signature harness: envelope, signature, verdicts
    ex,         \* the executor on its own: process.env, the disk, a claimed row, its outcome
    cr,         \* the Cloud Run worker: its environment, the row it handles, what it spawned
    lw,         \* the loopOnce workers that cancel by kill switch, and their backend
    pw,         \* the interval-driven pollCommands workers, and their backend
    fw,         \* the Fabric worker, its backend and its disk
    cj,         \* canonicalJson on its own: two payloads and their canonical texts
    pg,         \* safeJoin and safeResolve on their own: a path and what they return
    rd,         \* the readers of unnamed/part_002: their disk, a request, its outcome
    bl          \* one index.ts worker and a backlog longer than its listing limit

vars == <<rows, controls, events, pc, cyc, queued, cmd, out, hist, insertFails, sig, ex, cr,
          lw, pw, fw, cj, pg, rd, bl>>

\* the variables of the other workers
variants == <<lw, pw, fw, cj, pg, rd, bl>>

-----------------------------------------------------------------------------
(* Bounds *)

NumWorkers == 2
NumCmds == 2

Workers == 1..NumWorkers
CmdIds == 1..NumCmds

-----------------------------------------------------------------------------
(* JavaScript values *)

JUndefined == [t |-> "undefined"]
JNull == [t |-> "null"]
JStr(s) == [t |-> "str", v |-> s]
JNum(n) == [t |-> "num", v |-> n]
JArr(el) == [t |-> "arr", el |-> el]
JObj(kv) == [t |-> "obj", kv |-> kv]
KV(k, v) == [k |-> k, v |-> v]

\* `v ?? d`
Nullish(v, d) == IF v.t \in {"undefined", "null"} THEN d ELSE v

\* !v for the values a signature column can hold
Falsy(v) == v.t \in {"undefined", "null"} \/ (v.t = "str" /\ v.v = <<>>)

\* Array.prototype.sort() on the keys used here: UTF-16 code unit order
KeyRank(k) ==
    CASE k = "a" -> 1
      [] k = "args" -> 2
      [] k = "b" -> 3
      [] k = "cmd" -> 4
      [] k = "content" -> 5
      [] k = "maxBytes" -> 6
      [] k = "path" -> 7

RECURSIVE InsertKV(_, _)
InsertKV(kv, sorted) ==
    IF sorted = <<>> THEN <<kv>>
    ELSE IF KeyRank(kv.k) < KeyRank(Head(sorted).k) THEN <<kv>> \o sorted
    ELSE <<Head(sorted)>> \o InsertKV(kv, Tail(sorted))

RECURSIVE SortKV(_)
SortKV(kvs) == IF kvs = <<>> THEN <<>> ELSE InsertKV(Head(kvs), SortKV(Tail(kvs)))

\* a sort of the keys of the outermost object only
sortKeysShallow(v) ==
    IF v.t = "obj" THEN JObj(SortKV(v.kv)) ELSE v

RECURSIVE sortKeysDeep(_)
sortKeysDeep(v) ==
    CASE v.t = "arr" -> JArr([i \in 1..Len(v.el) |-> sortKeysDeep(v.el[i])])
      [] v.t = "obj" ->
            LET s == SortKV(v.kv)
            IN JObj([i \in 1..Len(s) |-> KV(s[i].k, sortKeysDeep(s[i].v))])
      [] OTHER -> v

RECURSIVE JoinWith(_, _)
JoinWith(parts, sep) ==
    IF parts = <<>> THEN <<>>
    ELSE IF Len(parts) = 1 THEN parts[1]
    ELSE parts[1] \o sep \o JoinWith(Tail(parts), sep)

\* JSON.stringify; the tokens of a string hold no character that it escapes
RECURSIVE JSONstringify(_)
JSONstringify(v) ==
    CASE v.t = "null" -> <<"null">>
      [] v.t = "num" -> <<ToString(v.v)>>
      [] v.t = "str" -> <<"\"">> \o v.v \o <<"\"">>
      [] v.t = "arr" ->
            <<"[">> \o JoinWith([i \in 1..Len(v.el) |-> JSONstringify(v.el[i])], <<",">>)
                    \o <<"]">>
      [] v.t = "obj" ->
            <<"{">> \o JoinWith([i \in 1..Len(v.kv) |->
                                   <<"\"", v.kv[i].k, "\"", ":">> \o JSONstringify(v.kv[i].v)],
                                <<",">>)
                    \o <<"}">>

canonicalJson(value) == JSONstringify(sortKeysDeep(Nullish(value, JObj(<<>>))))

RECURSIVE stableJson(_)
stableJson(value) ==
    CASE value.t \in {"null", "undefined"} -> <<"null">>
      [] value.t \in {"num", "str"} -> JSONstringify(value)
      [] value.t = "arr" ->
            <<"[">> \o JoinWith([i \in 1..Len(value.el) |-> stableJson(value.el[i])], <<",">>)
                    \o <<"]">>
      [] value.t = "obj" ->
            LET keys == SortKV(value.kv)
            IN <<"{">> \o JoinWith([i \in 1..Len(keys) |->
                                      <<"\"", keys[i].k, "\"", ":">> \o stableJson(keys[i].v)],
                                   <<",">>)
                       \o <<"}">>

-----------------------------------------------------------------------------
(* lib/signature.ts *)

\* crypto.createHmac("sha256", secret).update(data).digest(enc)
Hmac(secret, data, enc) == [t |-> "mac", enc |-> enc, key |-> secret, msg |-> data]

signCommandFabric(secret, id, project_id, node_id, command, payload, created_at) ==
    LET payloadStr == canonicalJson(payload)
        data == JoinWith(<<id, project_id, node_id, command, payloadStr, created_at>>, <<"|">>)
    IN Hmac(secret, data, "hex")

signCommandV2(secret, id, project_id, node_id, command, payload, created_at) ==
    LET base == JoinWith(<<id, project_id, node_id, command, created_at,
                           canonicalJson(payload)>>, <<"|">>)
    IN Hmac(secret, base, "hex")

signCommandV1Hex(secret, id, created_at, payload) ==
    LET base == id \o <<":">> \o created_at \o <<":">> \o stableJson(Nullish(payload, JObj(<<>>)))
    IN Hmac(secret, base, "hex")

signCommandV1B64(secret, id, created_at, payload) ==
    LET base == id \o <<".">> \o created_at \o <<".">> \o stableJson(Nullish(payload, JObj(<<>>)))
    IN Hmac(secret, base, "base64")

\* equal length and equal bytes
timingSafeEq(a, b) == a = b

verifyCommand(secret, id, project_id, node_id, command, payload, created_at, signature) ==
    IF Falsy(signature) THEN FALSE
    ELSE IF timingSafeEq(signature,
               signCommandFabric(secret, id, project_id, node_id, command, payload, created_at))
         THEN TRUE
    ELSE IF timingSafeEq(signature,
               signCommandV2(secret, id, project_id, node_id, command, payload, created_at))
         THEN TRUE
    ELSE IF timingSafeEq(signature, signCommandV1Hex(secret, id, created_at, payload))
         THEN TRUE
    ELSE IF timingSafeEq(signature, signCommandV1B64(secret, id, created_at, payload))
         THEN TRUE
    ELSE FALSE

-----------------------------------------------------------------------------
(* lib/sandbox.ts: the path guard and the two readers of index.ts *)

\* path.resolve(process.cwd(), SANDBOX_ROOT || "./sandbox"), as path segments
sandboxRoot == << <<"app">>, <<"sandbox">> >>

\* A path string is a token sequence in which "/" is path.sep; a segment is
\* the token sequence between two separators.
RECURSIVE SplitSep(_, _, _)
SplitSep(s, cur, acc) ==
    IF s = <<>> THEN Append(acc, cur)
    ELSE IF Head(s) = "/" THEN SplitSep(Tail(s), <<>>, Append(acc, cur))
    ELSE SplitSep(Tail(s), Append(cur, Head(s)), acc)

RECURSIVE Normalize(_, _)
Normalize(segs, acc) ==
    IF segs = <<>> THEN acc
    ELSE LET g == Head(segs)
         IN IF g = <<>> \/ g = <<".">> THEN Normalize(Tail(segs), acc)
            ELSE IF g = <<"..">>
                 THEN Normalize(Tail(segs),
                                IF acc = <<>> THEN acc ELSE SubSeq(acc, 1, Len(acc) - 1))
            ELSE Normalize(Tail(segs), Append(acc, g))

\* path.resolve(root, p): an absolute p replaces the root
pathResolve(root, p) ==
    IF p # <<>> /\ Head(p) = "/" THEN Normalize(SplitSep(p, <<>>, <<>>), <<>>)
    ELSE Normalize(SplitSep(p, <<>>, <<>>), root)

\* the string of an absolute path given by its segments
PathStr(segs) ==
    IF segs = <<>> THEN <<"/">>
    ELSE <<"/">> \o JoinWith(segs, <<"/">>)

startsWith(s, prefix) == Len(s) >= Len(prefix) /\ SubSeq(s, 1, Len(prefix)) = prefix

\* a guard that compares with the root alone, without path.sep after it
safeSandboxPathNoSep(rel) ==
    LET root == PathStr(sandboxRoot)
        cleaned == IF rel = <<>> THEN <<".">> ELSE rel
        full == PathStr(pathResolve(sandboxRoot, cleaned))
    IN [threw |-> ~startsWith(full, root), full |-> full]

\* a guard that also refuses every argument with a .. segment
safeSandboxPathNoDotDot(rel) ==
    LET root == PathStr(sandboxRoot)
        cleaned == IF rel = <<>> THEN <<".">> ELSE rel
        full == PathStr(pathResolve(sandboxRoot, cleaned))
    IN [threw |-> \/ (~startsWith(full, root \o <<"/">>) /\ full # root)
                  \/ \E i \in 1..Len(cleaned) : cleaned[i] = "..",
        full |-> full]

\* safeSandboxPath: [threw, full]; the strings here hold no white space, so trim() keeps them
safeSandboxPath(rel) ==
    LET root == PathStr(sandboxRoot)
        cleaned == IF rel = <<>> THEN <<".">> ELSE rel
        full == PathStr(pathResolve(sandboxRoot, cleaned))
    IN IF ~startsWith(full, root \o <<"/">>) /\ full # root
       THEN [threw |-> TRUE, full |-> full]
       ELSE [threw |-> FALSE, full |-> full]

\* Number(process.env.FILE_HEAD_BYTES || 65536): ex.env is <<>> when the
\* variable is unset, <<n>> when it is set to the digits of n
FileHeadDefault == 65536
FILE_HEAD_BYTES == IF ex.env = <<>> THEN FileHeadDefault ELSE ex.env[1]
HeadFloor == 256
MaxBytesCeil == 262144
MaxBytesFloor == 128
MaxBytesDefault == 4096

Min(a, b) == IF a < b THEN a ELSE b
Max(a, b) == IF a > b THEN a ELSE b

\* The disk: the sandbox root with one file f of ex.size bytes in it, and
\* beside the root the directories /app, /etc and /app/sandboxx.  DiskSize is
\* the size in bytes of the file at a full path string, or -1 for a directory.
DiskPaths ==
    { PathStr(sandboxRoot),
      PathStr(Append(sandboxRoot, <<"f">>)),
      PathStr(<< <<"app">> >>),
      PathStr(<< <<"etc">> >>),
      PathStr(<< <<"app">>, <<"sandbox", "x">> >>) }
DiskSize(full) == IF full = PathStr(Append(sandboxRoot, <<"f">>)) THEN ex.size ELSE 0 - 1

\* listDir: throws when the guard throws or readdir fails.  fs is the path
\* handed to fs.readdir (<<>> if none was), read the directory whose entries
\* are returned.
listDir(relDir) ==
    LET g == safeSandboxPath(IF relDir = <<>> THEN <<".">> ELSE relDir)
    IN IF g.threw THEN [threw |-> TRUE, msg |-> <<"Ruta fuera de sandbox (blocked).">>,
                        fs |-> <<>>, read |-> <<>>]
       ELSE IF g.full \notin DiskPaths \/ DiskSize(g.full) >= 0
            THEN [threw |-> TRUE, msg |-> <<"ENOENT">>, fs |-> g.full, read |-> <<>>]
       ELSE [threw |-> FALSE, msg |-> <<>>, fs |-> g.full, read |-> g.full]

\* readFileHead: fs is the path handed to fs.readFile, read the file whose
\* head is returned, bytes the length of that head
readFileHead(relPath, maxBytes) ==
    LET g == safeSandboxPath(relPath)
        cap == Max(HeadFloor, Min(maxBytes, FILE_HEAD_BYTES))
    IN IF g.threw THEN [threw |-> TRUE, msg |-> <<"Ruta fuera de sandbox (blocked).">>,
                        fs |-> <<>>, read |-> <<>>, bytes |-> 0]
       ELSE IF g.full \notin DiskPaths \/ DiskSize(g.full) < 0
            THEN [threw |-> TRUE, msg |-> <<"EISDIR">>, fs |-> g.full, read |-> <<>>,
                  bytes |-> 0]
       ELSE [threw |-> FALSE, msg |-> <<>>, fs |-> g.full, read |-> g.full,
             bytes |-> Min(cap, DiskSize(g.full))]

-----------------------------------------------------------------------------
(* index.ts: configuration and the command rows *)

PROJECT_ID == <<"global">>
NODE_ID == <<"hocker-node-1">>
COMMAND_HMAC_SECRET == <<"s3cr3t">>
ListLimit == 10

\* nowIso(): some timestamp, never null
nowIso == JStr(<<"now">>)

\* The external issuer inserts rows in the order of their ids; created_at grows with it.
IdOf(i) == <<"c", ToString(i)>>
CreatedAt(i) == <<"t", ToString(i)>>

\* payload.path / payload.maxBytes
JGet(obj, key) ==
    IF obj.t = "obj" /\ \E i \in 1..Len(obj.kv) : obj.kv[i].k = key
    THEN obj.kv[CHOOSE i \in 1..Len(obj.kv) : obj.kv[i].k = key].v
    ELSE JUndefined

\* what the issuer may put on the queue: a command name, a payload and the way it is signed
Templates ==
    { [command |-> <<"ping">>, payload |-> JObj(<<>>), signed |-> "fabric"],
      [command |-> <<"ping">>, payload |-> JNull, signed |-> "none"],
      [command |-> <<"rm">>, payload |-> JObj(<<>>), signed |-> "fabric"] }

IssuerSign(tp, i) ==
    CASE tp.signed = "fabric" ->
            signCommandFabric(COMMAND_HMAC_SECRET, IdOf(i), PROJECT_ID, NODE_ID,
                              tp.command, tp.payload, CreatedAt(i))
      [] tp.signed = "v2" ->
            signCommandV2(COMMAND_HMAC_SECRET, IdOf(i), PROJECT_ID, NODE_ID,
                          tp.command, tp.payload, CreatedAt(i))
      [] tp.signed = "v1hex" ->
            signCommandV1Hex(COMMAND_HMAC_SECRET, IdOf(i), CreatedAt(i), tp.payload)
      [] OTHER -> JNull

NewRow(i, tp) ==
    [id |-> IdOf(i), project_id |-> PROJECT_ID, node_id |-> NODE_ID,
     created_at |-> CreatedAt(i), status |-> "queued", needs_approval |-> FALSE,
     command |-> tp.command, payload |-> tp.payload, signature |-> IssuerSign(tp, i),
     started_at |-> JNull, executed_at |-> JNull, finished_at |-> JNull,
     result |-> JNull, error |-> JNull]

-----------------------------------------------------------------------------
(* index.ts: runCommand *)

\* a runCommand that does not consult the verifier
runCommandVerifySkipped(c) == TRUE

\* The call site passes two arguments, verifyCommand(cmd, COMMAND_HMAC_SECRET):
\* the row is bound to `secret`, the secret to `id`, and the six remaining
\* parameters, `signature` among them, are undefined.
runCommandVerify(c) ==
    verifyCommand(c, COMMAND_HMAC_SECRET, JUndefined, JUndefined, JUndefined,
                  JUndefined, JUndefined, JUndefined)

Thrown(msg) == [threw |-> TRUE, val |-> JStr(msg), fx |-> "none", fs |-> <<>>, read |-> <<>>]
ThrownByFs(msg, fs) == [threw |-> TRUE, val |-> JStr(msg), fx |-> "none", fs |-> fs, read |-> <<>>]
Returned(val, fx, read) == [threw |-> FALSE, val |-> val, fx |-> fx, fs |-> read, read |-> read]

\* the switch of runCommand: what it returns or throws, the executor action it
\* performed (fx) and the path it handed to the filesystem (read)
runCommandSwitch(c) ==
    LET payload == Nullish(c.payload, JObj(<<>>))
        p == JGet(payload, "path")
        mb == JGet(payload, "maxBytes")
    IN CASE c.command = <<"ping">> ->
              Returned(JObj(<<KV("ok", JNum(1)), KV("pong", JNum(1)), KV("now", nowIso)>>),
                       "ping", <<>>)
         [] c.command = <<"status">> ->
              Returned(JObj(<<KV("ok", JNum(1)), KV("node_id", JStr(NODE_ID))>>),
                       "status", <<>>)
         [] c.command = <<"read_dir">> ->
              LET rel == IF Falsy(p) THEN <<".">> ELSE p.v
                  g == safeSandboxPath(rel)
                  l == listDir(rel)
              IN IF g.threw THEN Thrown(<<"Ruta fuera de sandbox (blocked).">>)
                 ELSE IF l.threw THEN ThrownByFs(l.msg, l.fs)
                 ELSE Returned(JObj(<<KV("ok", JNum(1)), KV("path", JStr(rel)),
                                      KV("resolved", JStr(g.full))>>), "listDir", l.read)
         [] c.command = <<"read_file_head">> ->
              LET rel == IF Falsy(p) THEN <<>> ELSE p.v
                  g == safeSandboxPath(rel)
                  n == IF mb.t = "num" /\ mb.v # 0 THEN mb.v ELSE MaxBytesDefault
                  maxBytes == Min(MaxBytesCeil, Max(MaxBytesFloor, n))
                  h == readFileHead(rel, maxBytes)
              IN IF g.threw THEN Thrown(<<"Ruta fuera de sandbox (blocked).">>)
                 ELSE IF h.threw THEN ThrownByFs(h.msg, h.fs)
                 ELSE Returned(JObj(<<KV("ok", JNum(1)), KV("path", JStr(rel)),
                                      KV("resolved", JStr(g.full)),
                                      KV("bytes", JNum(h.bytes))>>), "readFileHead", h.read)
         [] OTHER -> Thrown(<<"command_not_allowed">>)

\* runCommand(cmd)
runCommand(c) ==
    IF ~runCommandVerify(c) THEN Thrown(<<"invalid_signature">>)
    ELSE runCommandSwitch(c)

-----------------------------------------------------------------------------
(* index.ts: the backend calls *)

\* emitEvent: the insert may fail, and the failure is swallowed.  The table
\* keeps the events that name a command (data.command_id); the agent.* events
\* name none and are not kept.  Nothing reads the table, so the runs in which
\* inserts fail differ from the others in `events` alone; insertFails says
\* whether a specification explores them.
Ev(level, type, cid) == [level |-> level, type |-> type, command_id |-> cid]

\* an emitEvent that does not return until the insert has succeeded
emitEventMustInsert(level, type, cid) ==
    \E failed \in insertFails :
        /\ ~failed
        /\ events' = IF cid = <<>> THEN events
                     ELSE events (+) SetToBag({Ev(level, type, cid)})

emitEvent(level, type, cid) ==
    \E failed \in insertFails :
        events' = IF failed \/ cid = <<>> THEN events
                  ELSE events (+) SetToBag({Ev(level, type, cid)})

\* getControls: the record, or the default when the select reports an error
getControlsResults == {controls, [kill_switch |-> FALSE, allow_write |-> FALSE]}

\* a loop that never pauses on the kill switch
killSwitchIgnored(c) == FALSE

\* `if (controls.kill_switch)` and `if (controls2.kill_switch)`
killSwitchOn(c) == c.kill_switch

\* fetchQueued: the ids of this worker's queued rows, oldest first, at most ListLimit
fetchFilter(r) ==
    /\ r.project_id = PROJECT_ID
    /\ r.node_id = NODE_ID
    /\ r.status = "queued"
    /\ r.needs_approval = FALSE

RECURSIVE Ascending(_, _)
Ascending(S, n) ==
    IF S = {} \/ n = 0 THEN <<>>
    ELSE LET m == CHOOSE x \in S : \A y \in S : x <= y
         IN <<m>> \o Ascending(S \ {m}, n - 1)

fetchQueued == Ascending({i \in DOMAIN rows : fetchFilter(rows[i])}, ListLimit)

\* a claim update filtered by id alone
claimFilterNoStatus(r, i) ==
    /\ r.project_id = PROJECT_ID
    /\ r.id = IdOf(i)

\* claimQueued: the filter of the conditional update
claimFilter(r, i) ==
    /\ r.project_id = PROJECT_ID
    /\ r.id = IdOf(i)
    /\ r.status = "queued"

claimUpdate(r) == [r EXCEPT !.status = "running", !.started_at = nowIso, !.executed_at = nowIso]

\* finishOk / finishErr / cancel: the filter and the three updates
finishFilter(r, i) ==
    /\ r.project_id = PROJECT_ID
    /\ r.id = IdOf(i)

finishOkUpdate(r, result) ==
    [r EXCEPT !.status = "done", !.finished_at = nowIso, !.result = result, !.error = JNull]
\* a cancel that leaves finished_at as it was
cancelUpdateNoStamp(r, msg) ==
    [r EXCEPT !.status = "canceled", !.result = JNull, !.error = msg]

cancelUpdate(r, msg) ==
    [r EXCEPT !.status = "canceled", !.finished_at = nowIso, !.result = JNull, !.error = msg]

\* a finish that cancels the command when the kill switch is on by then
finishErrUpdatePreempted(r, msg) ==
    IF controls.kill_switch
    THEN [r EXCEPT !.status = "canceled", !.finished_at = nowIso, !.result = JNull,
                   !.error = JStr(<<"Kill switch ON">>)]
    ELSE [r EXCEPT !.status = "error", !.finished_at = nowIso, !.result = JNull,
                   !.error = msg]

\* a finishErr that writes the status under another name
finishErrUpdateFailed(r, msg) ==
    [r EXCEPT !.status = "failed", !.finished_at = nowIso, !.result = JNull, !.error = msg]

finishErrUpdate(r, msg) ==
    [r EXCEPT !.status = "error", !.finished_at = nowIso, !.result = JNull, !.error = msg]

\* UPDATE ... WHERE filter, on the one row with this id: the table after it
Update(i, matches, updated) ==
    IF matches THEN [rows EXCEPT ![i] = updated] ELSE rows

-----------------------------------------------------------------------------
(* index.ts: loop.  A step is one backend call on the commands or controls *)
(* table together with the event insert that follows it; sleep(POLL_MS)    *)
(* ends the step that precedes it.                                         *)

NoOut == [threw |-> FALSE, val |-> JNull, fx |-> "none", fs |-> <<>>, read |-> <<>>]

\* the id (a key of rows) of the row a worker holds in `cmd`
CmdKey(w) == CHOOSE i \in CmdIds : IdOf(i) = cmd[w][1].id

Goto(w, l) == pc' = [pc EXCEPT ![w] = l]

\* a `continue` that leaves the for loop
ForNextStop(w) ==
    /\ queued' = [queued EXCEPT ![w] = <<>>]
    /\ cmd' = [cmd EXCEPT ![w] = <<>>]
    /\ out' = [out EXCEPT ![w] = NoOut]
    /\ cyc' = [cyc EXCEPT ![w] = <<>>]
    /\ Goto(w, "upsertNode")

\* `continue` and the end of the for body: the next listed row, or the sleep
\* after the loop and the next iteration of while (true)
ForNext(w) ==
    /\ queued' = [queued EXCEPT ![w] = Tail(queued[w])]
    /\ cmd' = [cmd EXCEPT ![w] = <<>>]
    /\ out' = [out EXCEPT ![w] = NoOut]
    /\ IF Tail(queued[w]) = <<>>
       THEN cyc' = [cyc EXCEPT ![w] = <<>>] /\ Goto(w, "upsertNode")
       ELSE cyc' = [cyc EXCEPT ![w] = <<cyc[w][1]>>] /\ Goto(w, "claim")

\* A catch block that ends the worker instead of sleeping and going round
\* the while loop again.
ThrowExits(w) ==
    /\ emitEvent("error", "agent.loop_error", <<>>)
    /\ queued' = [queued EXCEPT ![w] = <<>>]
    /\ cmd' = [cmd EXCEPT ![w] = <<>>]
    /\ out' = [out EXCEPT ![w] = NoOut]
    /\ cyc' = [cyc EXCEPT ![w] = <<>>]
    /\ Goto(w, "exit")

\* a throw inside the try of the while body: the catch at loop level emits
\* agent.loop_error, sleeps, and the next iteration begins
Throw(w) ==
    /\ emitEvent("error", "agent.loop_error", <<>>)
    /\ queued' = [queued EXCEPT ![w] = <<>>]
    /\ cmd' = [cmd EXCEPT ![w] = <<>>]
    /\ out' = [out EXCEPT ![w] = NoOut]
    /\ cyc' = [cyc EXCEPT ![w] = <<>>]
    /\ Goto(w, "upsertNode")

Boot(w) ==
    /\ pc[w] = "boot"
    /\ emitEvent("info", "agent.boot", <<>>)
    /\ Goto(w, "upsertNode")
    /\ UNCHANGED <<rows, controls, cyc, queued, cmd, out, hist, insertFails, sig, ex, cr, variants>>

UpsertNode(w) ==
    /\ pc[w] = "upsertNode"
    /\ \/ Goto(w, "getControls") /\ UNCHANGED <<events, cyc, queued, cmd, out>>
       \/ Throw(w)
    /\ UNCHANGED <<rows, controls, hist, insertFails, sig, ex, cr, variants>>

GetControls(w) ==
    /\ pc[w] = "getControls"
    /\ \E c \in getControlsResults :
          /\ cyc' = [cyc EXCEPT ![w] = <<c>>]
          /\ Goto(w, IF killSwitchOn(c) THEN "emitKillSwitch" ELSE "fetchQueued")
    /\ UNCHANGED <<rows, controls, events, queued, cmd, out, hist, insertFails, sig, ex, cr, variants>>

EmitKillSwitch(w) ==
    /\ pc[w] = "emitKillSwitch"
    /\ emitEvent("warn", "agent.kill_switch", <<>>)
    /\ cyc' = [cyc EXCEPT ![w] = <<>>]
    /\ Goto(w, "upsertNode")
    /\ UNCHANGED <<rows, controls, queued, cmd, out, hist, insertFails, sig, ex, cr, variants>>

FetchQueued(w) ==
    /\ pc[w] = "fetchQueued"
    /\ \/ /\ queued' = [queued EXCEPT ![w] = fetchQueued]
          /\ IF fetchQueued = <<>>
             THEN cyc' = [cyc EXCEPT ![w] = <<>>] /\ Goto(w, "upsertNode")
             ELSE cyc' = cyc /\ Goto(w, "claim")
          /\ UNCHANGED <<events, cmd, out>>
       \/ Throw(w)
    /\ UNCHANGED <<rows, controls, hist, insertFails, sig, ex, cr, variants>>

ClaimQueued(w) ==
    /\ pc[w] = "claim"
    /\ LET i == Head(queued[w])
           hit == i \in DOMAIN rows /\ claimFilter(rows[i], i)
       IN \/ /\ rows' = Update(i, hit, claimUpdate(rows[i]))
             /\ hist' = [hist EXCEPT !.tried[i] = @ \cup {w},
                                     !.got[i] = IF hit THEN @ \cup {w} ELSE @]
             /\ IF hit
                THEN /\ cmd' = [cmd EXCEPT ![w] = <<rows'[i]>>]
                     /\ Goto(w, "getControls2")
                     /\ UNCHANGED <<cyc, queued, out>>
                ELSE ForNext(w)
          \/ /\ UNCHANGED <<rows, hist>>
             /\ ForNext(w)
    /\ UNCHANGED <<controls, events, insertFails, sig, ex, cr, variants>>

GetControls2(w) ==
    /\ pc[w] = "getControls2"
    /\ \E c2 \in getControlsResults :
          /\ cyc' = [cyc EXCEPT ![w] = <<cyc[w][1], c2>>]
          /\ IF killSwitchOn(c2)
             THEN Goto(w, "cancel") /\ events' = events
             ELSE Goto(w, "runCommand") /\ emitEvent("info", "command.started", cmd[w][1].id)
    /\ UNCHANGED <<rows, controls, queued, cmd, out, hist, insertFails, sig, ex, cr, variants>>

Cancel(w) ==
    /\ pc[w] = "cancel"
    /\ \/ /\ rows' = Update(CmdKey(w), finishFilter(rows[CmdKey(w)], CmdKey(w)),
                            cancelUpdate(rows[CmdKey(w)], JStr(<<"Kill switch ON">>)))
          /\ emitEvent("warn", "command.blocked", cmd[w][1].id)
          /\ ForNext(w)
       \/ /\ rows' = rows
          /\ Throw(w)
    /\ UNCHANGED <<controls, hist, insertFails, sig, ex, cr, variants>>

\* the row's own fields pass verifyCommand
Verifies(r) ==
    verifyCommand(COMMAND_HMAC_SECRET, r.id, r.project_id, r.node_id, r.command,
                  r.payload, r.created_at, r.signature)

RunCommand(w) ==
    /\ pc[w] = "runCommand"
    /\ LET r == runCommand(cmd[w][1])
           i == CmdKey(w)
       IN /\ out' = [out EXCEPT ![w] = r]
          /\ hist' = [hist EXCEPT !.runs[i] = @ + 1,
                                  !.fx = IF r.fx = "none" THEN @
                                         ELSE @ \cup {[id |-> i, fx |-> r.fx,
                                                       verified |-> Verifies(cmd[w][1])]}]
          /\ Goto(w, IF r.threw THEN "finishErr" ELSE "finishOk")
    /\ UNCHANGED <<rows, controls, events, cyc, queued, cmd, insertFails, sig, ex, cr, variants>>

\* the try / catch around runCommand: finishOk and command.done after a
\* return; finishErr and command.error after a throw, be it runCommand's or
\* finishOk's
Finish(w) ==
    /\ pc[w] \in {"finishOk", "finishErr"}
    /\ LET i == CmdKey(w)
       IN IF pc[w] = "finishOk"
          THEN \/ /\ rows' = Update(i, finishFilter(rows[i], i),
                                    finishOkUpdate(rows[i], out[w].val))
                  /\ emitEvent("info", "command.done", cmd[w][1].id)
                  /\ ForNext(w)
               \/ /\ rows' = rows
                  /\ out' = [out EXCEPT ![w] = Thrown(<<"backend error">>)]
                  /\ Goto(w, "finishErr")
                  /\ UNCHANGED <<events, cyc, queued, cmd>>
          ELSE \/ /\ rows' = Update(i, finishFilter(rows[i], i),
                                    finishErrUpdate(rows[i], out[w].val))
                  /\ emitEvent("error", "command.error", cmd[w][1].id)
                  /\ ForNext(w)
               \/ /\ rows' = rows
                  /\ Throw(w)
    /\ UNCHANGED <<controls, hist, insertFails, sig, ex, cr, variants>>

Step(w) ==
    \/ Boot(w) \/ UpsertNode(w) \/ GetControls(w) \/ EmitKillSwitch(w)
    \/ FetchQueued(w) \/ ClaimQueued(w) \/ GetControls2(w) \/ Cancel(w)
    \/ RunCommand(w) \/ Finish(w)

-----------------------------------------------------------------------------
(* The environment: the issuer and the governance actor *)

Enqueue ==
    /\ \E i \in CmdIds \ DOMAIN rows, tp \in Templates :
          /\ \A j \in CmdIds : j < i => j \in DOMAIN rows
          /\ rows' = (i :> NewRow(i, tp)) @@ rows
    /\ UNCHANGED <<controls, events, pc, cyc, queued, cmd, out, hist, insertFails, sig, ex, cr, variants>>

InFlight == {w \in Workers : pc[w] \in {"runCommand", "finishOk", "finishErr"}}

SetKillSwitch ==
    /\ controls' = [controls EXCEPT !.kill_switch = ~controls.kill_switch]
    /\ hist' = IF controls'.kill_switch
               THEN [hist EXCEPT !.ksInFlight = @ \cup {CmdKey(w) : w \in InFlight}]
               ELSE hist
    /\ UNCHANGED <<rows, events, pc, cyc, queued, cmd, out, insertFails, sig, ex, cr, variants>>

-----------------------------------------------------------------------------
(* The worker processes against one backend *)

\* no row, no event, every worker of index.ts before its first step
Rest ==
    /\ rows = <<>>
    /\ events = EmptyBag
    /\ pc = [w \in Workers |-> "boot"]
    /\ cyc = [w \in Workers |-> <<>>]
    /\ queued = [w \in Workers |-> <<>>]
    /\ cmd = [w \in Workers |-> <<>>]
    /\ out = [w \in Workers |-> NoOut]
    /\ hist = [tried |-> [i \in CmdIds |-> {}], got |-> [i \in CmdIds |-> {}],
               runs |-> [i \in CmdIds |-> 0], fx |-> {}, ksInFlight |-> {}]

NoSig == <<>>

\* FILE_HEAD_BYTES unset, a file of 300 bytes, no call of the executor harness
ExIdle == [stage |-> "idle", env |-> <<>>, size |-> 300, row |-> <<>>, out |-> NoOut]

\* no Cloud Run worker
CrIdle == [pc |-> "idle"]

\* none of the other workers
LwIdle == <<>>
PwIdle == <<>>
FwIdle == <<>>
CjIdle == <<>>
PgIdle == <<>>
RdIdle == <<>>
BlIdle == <<>>
VariantsIdle == lw = LwIdle /\ pw = PwIdle /\ fw = FwIdle /\ cj = CjIdle
                /\ pg = PgIdle /\ rd = RdIdle /\ bl = BlIdle

Init ==
    /\ rows = <<>>
    /\ controls \in {[kill_switch |-> k, allow_write |-> FALSE] : k \in BOOLEAN}
    /\ events = EmptyBag
    /\ pc = [w \in Workers |-> "boot"]
    /\ cyc = [w \in Workers |-> <<>>]
    /\ queued = [w \in Workers |-> <<>>]
    /\ cmd = [w \in Workers |-> <<>>]
    /\ out = [w \in Workers |-> NoOut]
    /\ hist = [tried |-> [i \in CmdIds |-> {}], got |-> [i \in CmdIds |-> {}],
               runs |-> [i \in CmdIds |-> 0], fx |-> {}, ksInFlight |-> {}]
    /\ insertFails = {FALSE}
    /\ sig = NoSig
    /\ ex = ExIdle
    /\ cr = CrIdle
    /\ VariantsIdle

Next ==
    \/ \E w \in Workers : Step(w)
    \/ Enqueue
    \/ SetKillSwitch

Spec == Init /\ [][Next]_vars

\* the same workers against a backend whose inserts into events may fail
EvInit ==
    /\ Rest
    /\ controls \in {[kill_switch |-> k, allow_write |-> FALSE] : k \in BOOLEAN}
    /\ insertFails = BOOLEAN
    /\ sig = NoSig
    /\ ex = ExIdle
    /\ cr = CrIdle
    /\ VariantsIdle

\* the issuer enqueues unsigned pings: no event depends on the command, the
\* payload or the signature
EnqueuePing ==
    /\ Enqueue
    /\ \A i \in DOMAIN rows' :
          rows'[i].command = <<"ping">> /\ rows'[i].payload = JNull

EvNext ==
    \/ \E w \in Workers : Step(w)
    \/ EnqueuePing
    \/ SetKillSwitch

EvSpec == EvInit /\ [][EvNext]_vars

\* The issuer enqueues signed pings, and somebody with write access to the
\* table changes the command name of a row, at any moment, leaving the
\* signature as it is.
EnqueueSignedPing ==
    /\ Enqueue
    /\ \A i \in DOMAIN rows' :
          /\ rows'[i].command \in {<<"ping">>, <<"status">>}
          /\ rows'[i].payload = JObj(<<>>)
          /\ rows'[i].signature # JNull

Tamper ==
    /\ \E i \in DOMAIN rows :
          /\ rows[i].command = <<"ping">>
          /\ rows' = [rows EXCEPT ![i].command = <<"status">>]
    /\ UNCHANGED <<controls, events, pc, cyc, queued, cmd, out, hist, insertFails, sig, ex, cr,
                   variants>>

TamperNext ==
    \/ \E w \in Workers : Step(w)
    \/ EnqueueSignedPing
    \/ Tamper

TamperSpec == Init /\ [][TamperNext]_vars

\* the governance actor puts a queued row on approval hold: the flag
\* needs_approval is set, the status column is left as it is
Hold ==
    /\ \E i \in DOMAIN rows :
          /\ rows[i].status = "queued"
          /\ ~rows[i].needs_approval
          /\ rows' = [rows EXCEPT ![i].needs_approval = TRUE]
    /\ UNCHANGED <<controls, events, pc, cyc, queued, cmd, out, hist, insertFails, sig, ex, cr, variants>>

HoldNext ==
    \/ \E w \in Workers : Step(w)
    \/ EnqueuePing
    \/ SetKillSwitch
    \/ Hold

HoldSpec == Init /\ [][HoldNext]_vars

-----------------------------------------------------------------------------
(* verifyCommand on its own: an issuer signs an envelope, the verifier     *)
(* checks it, one field of the stored row is changed, the verifier checks  *)
(* the changed row against the unchanged signature.                        *)

SigIds == {<<"c", "1">>, <<"c", "2">>}
SigProjects == {PROJECT_ID, <<"p2">>}
SigNodes == {NODE_ID, <<"n2">>}
SigCommands == {<<"ping">>, <<"rm">>}
SigCreated == {<<"t", "1">>, <<"t", "2">>}
SigPayloads ==
    { JNull, JObj(<<>>),
      JObj(<<KV("a", JNum(1))>>), JObj(<<KV("a", JNum(2))>>),
      JObj(<<KV("a", JNum(1)), KV("b", JNum(2))>>),
      JObj(<<KV("b", JNum(2)), KV("a", JNum(1))>>) }
SigSecrets == {COMMAND_HMAC_SECRET, <<"other">>}
SigSchemes == {"fabric", "v2", "v1hex", "v1b64"}
SigJunk == {JNull, JStr(<<>>), JStr(<<"deadbeef">>)}

Envelopes ==
    [id : SigIds, project_id : SigProjects, node_id : SigNodes, command : SigCommands,
     payload : SigPayloads, created_at : SigCreated]

SignWith(scheme, secret, e) ==
    CASE scheme = "fabric" ->
            signCommandFabric(secret, e.id, e.project_id, e.node_id, e.command,
                              e.payload, e.created_at)
      [] scheme = "v2" ->
            signCommandV2(secret, e.id, e.project_id, e.node_id, e.command,
                          e.payload, e.created_at)
      [] scheme = "v1hex" -> signCommandV1Hex(secret, e.id, e.created_at, e.payload)
      [] scheme = "v1b64" -> signCommandV1B64(secret, e.id, e.created_at, e.payload)

VerifyEnv(e, sg) ==
    verifyCommand(COMMAND_HMAC_SECRET, e.id, e.project_id, e.node_id, e.command,
                  e.payload, e.created_at, sg)

\* two payloads with the same keys that differ in the value of exactly one key
Keys(p) == IF p.t = "obj" THEN {p.kv[i].k : i \in 1..Len(p.kv)} ELSE {}
OneValueChanged(p, q) ==
    /\ p.t = "obj" /\ q.t = "obj"
    /\ Keys(p) = Keys(q)
    /\ Cardinality({k \in Keys(p) : JGet(p, k) # JGet(q, k)}) = 1

\* the envelopes that differ from e in exactly one field
Tampered(e) ==
    {[field |-> "id", env |-> [e EXCEPT !.id = x]] : x \in SigIds \ {e.id}}
    \cup {[field |-> "project_id", env |-> [e EXCEPT !.project_id = x]] :
             x \in SigProjects \ {e.project_id}}
    \cup {[field |-> "node_id", env |-> [e EXCEPT !.node_id = x]] :
             x \in SigNodes \ {e.node_id}}
    \cup {[field |-> "command", env |-> [e EXCEPT !.command = x]] :
             x \in SigCommands \ {e.command}}
    \cup {[field |-> "created_at", env |-> [e EXCEPT !.created_at = x]] :
             x \in SigCreated \ {e.created_at}}
    \cup {[field |-> "payload", env |-> [e EXCEPT !.payload = x]] :
             x \in {q \in SigPayloads : OneValueChanged(e.payload, q)}}

Idle ==
    /\ rows = <<>>
    /\ controls = [kill_switch |-> FALSE, allow_write |-> FALSE]
    /\ events = EmptyBag
    /\ pc = [w \in Workers |-> "boot"]
    /\ cyc = [w \in Workers |-> <<>>]
    /\ queued = [w \in Workers |-> <<>>]
    /\ cmd = [w \in Workers |-> <<>>]
    /\ out = [w \in Workers |-> NoOut]
    /\ hist = [tried |-> [i \in CmdIds |-> {}], got |-> [i \in CmdIds |-> {}],
               runs |-> [i \in CmdIds |-> 0], fx |-> {}, ksInFlight |-> {}]
    /\ insertFails = {FALSE}

core == <<rows, controls, events, pc, cyc, queued, cmd, out, hist, insertFails>>

SigInit ==
    /\ Idle
    /\ ex = ExIdle
    /\ cr = CrIdle
    /\ VariantsIdle
    /\ \E e \in Envelopes :
          sig = [stage |-> "new", env |-> e, sg |-> JNull, scheme |-> "none", ok |-> FALSE,
                 field |-> "none", env2 |-> e, ok2 |-> FALSE]

SigSign ==
    /\ sig.stage = "new"
    /\ \/ \E scheme \in SigSchemes, secret \in SigSecrets :
             sig' = [sig EXCEPT !.stage = "signed", !.scheme = scheme,
                                !.sg = SignWith(scheme, secret, sig.env)]
       \/ \E j \in SigJunk : sig' = [sig EXCEPT !.stage = "signed", !.sg = j]
    /\ UNCHANGED <<core, ex, cr, variants>>

SigVerify ==
    /\ sig.stage = "signed"
    /\ sig' = [sig EXCEPT !.stage = "verified", !.ok = VerifyEnv(sig.env, sig.sg)]
    /\ UNCHANGED <<core, ex, cr, variants>>

SigTamper ==
    /\ sig.stage = "verified"
    /\ \E m \in Tampered(sig.env) :
          sig' = [sig EXCEPT !.stage = "tampered", !.field = m.field, !.env2 = m.env]
    /\ UNCHANGED <<core, ex, cr, variants>>

SigVerify2 ==
    /\ sig.stage = "tampered"
    /\ sig' = [sig EXCEPT !.stage = "done", !.ok2 = VerifyEnv(sig.env2, sig.sg)]
    /\ UNCHANGED <<core, ex, cr, variants>>

SigNext == SigSign \/ SigVerify \/ SigTamper \/ SigVerify2

SigSpec == SigInit /\ [][SigNext]_vars

-----------------------------------------------------------------------------
(* The switch of runCommand on its own: a row that was claimed and whose   *)
(* signature check is taken as passed is dispatched, and the try / catch   *)
(* of loop writes its outcome to the row.  The environment variable        *)
(* FILE_HEAD_BYTES, the size of the file and the capability flags are      *)
(* fixed at the start of a run.  In a path string ".." is one token.       *)

ExPaths ==
    { <<>>, <<".">>, <<"f">>, <<".", "/", "f">>, <<"nofile">>,
      <<"a", "/", "..", "/", "f">>,
      <<"f", "/", "..">>,
      <<"..", "/", "sandbox", "/", "f">>,
      <<"/", "app", "/", "sandbox", "/", "f">>,
      <<"/", "app", "/", "sandbox">>,
      <<"..", "/", "..", "/", "etc">>,
      <<"/", "etc">>,
      <<"..">>,
      <<"..", "/", "sandbox", "x">> }
ExMaxBytes == {0, 10, 128, 200, 256, 1000, 65536, 100000, 300000}
ExEnv == {<<>>, <<0>>, <<100>>, <<1024>>, <<300000>>}
ExSizes == {0, 10, 300, 2000, 70000, 300000}
ExCommands == {<<"read_dir">>, <<"read_file_head">>}

ExPayloads ==
    {JObj(<<KV("path", JStr(p))>>) : p \in ExPaths}
    \cup {JObj(<<KV("path", JStr(p)), KV("maxBytes", JNum(n))>>) :
             p \in ExPaths, n \in ExMaxBytes}

\* the row as claimQueued returns it
ExRow(c, payload) ==
    claimUpdate(NewRow(1, [command |-> c, payload |-> payload, signed |-> "fabric"]))

ExInit ==
    /\ Rest
    /\ insertFails = {FALSE}
    /\ controls \in {[kill_switch |-> FALSE, allow_write |-> a] : a \in BOOLEAN}
    /\ sig = NoSig
    /\ cr = CrIdle
    /\ VariantsIdle
    /\ \E c \in ExCommands, payload \in ExPayloads, e \in ExEnv, n \in ExSizes :
          ex = [stage |-> "claimed", env |-> e, size |-> n, row |-> ExRow(c, payload),
                out |-> NoOut]

ExRunCommand ==
    /\ ex.stage = "claimed"
    /\ ex' = [ex EXCEPT !.stage = "ran", !.out = runCommandSwitch(ex.row)]
    /\ UNCHANGED <<core, sig, cr, variants>>

ExFinish ==
    /\ ex.stage = "ran"
    /\ ex' = [ex EXCEPT !.stage = "finished",
                        !.row = IF ex.out.threw THEN finishErrUpdate(ex.row, ex.out.val)
                                ELSE finishOkUpdate(ex.row, ex.out.val)]
    /\ UNCHANGED <<core, sig, cr, variants>>

ExNext == ExRunCommand \/ ExFinish

ExecSpec == ExInit /\ [][ExNext]_vars

-----------------------------------------------------------------------------
(* The Cloud Run worker (unnamed/part_001: systemFlags, safeJoin,          *)
(* execShell, handleCommand, loopOnce) with ./security.js (signCommand,    *)
(* verifySignature).  One worker, one command row.  None of its backend    *)
(* calls is checked for an error: an update takes effect or does not, and  *)
(* loopOnce goes on either way.  Its messages are written here without     *)
(* their accents.                                                          *)

CR_NODE_ID == <<"node-cloudrun-01">>
SIGNING_SECRET == <<"s3cr3t">>
SANDBOX == << <<"tmp">>, <<"hocker-sandbox">> >>

\* String.prototype.split(",")
RECURSIVE SplitComma(_, _, _)
SplitComma(s, cur, acc) ==
    IF s = <<>> THEN Append(acc, cur)
    ELSE IF Head(s) = "," THEN SplitComma(Tail(s), <<>>, Append(acc, cur))
    ELSE SplitComma(Tail(s), Append(cur, Head(s)), acc)

\* String.prototype.trim(); " " is the one white-space token
RECURSIVE TrimStart(_)
TrimStart(s) == IF s # <<>> /\ Head(s) = " " THEN TrimStart(Tail(s)) ELSE s

RECURSIVE TrimEnd(_)
TrimEnd(s) ==
    IF s # <<>> /\ s[Len(s)] = " " THEN TrimEnd(SubSeq(s, 1, Len(s) - 1)) ELSE s

Trim(s) == TrimEnd(TrimStart(s))

\* (process.env.SHELL_ALLOWLIST ?? "").split(",").map(s => s.trim()).filter(Boolean);
\* cr.env is <<>> when the variable is unset, <<s>> when it is set to s
allowlist ==
    LET parts == SplitComma(IF cr.env = <<>> THEN <<>> ELSE cr.env[1], <<>>, <<>>)
    IN {Trim(parts[i]) : i \in 1..Len(parts)} \ {<<>>}

\* stableStringify of ./stable-json.js: key-sorted JSON
stableStringify(value) == JSONstringify(sortKeysDeep(value))

signCommand(secret, input) ==
    LET base == JoinWith(<<input.id, input.project_id, input.node_id, input.command,
                           stableStringify(Nullish(input.payload, JObj(<<>>)))>>, <<".">>)
    IN Hmac(secret, base, "hex")

\* String(sig || "") against the expected digest, length first
verifySignature(secret, sgn, input) ==
    LET expected == signCommand(secret, input)
        a == IF Falsy(sgn) THEN JStr(<<>>) ELSE sgn
    IN a = expected

\* rel.replace(/^(\.\.(\/|\\|$))+/, "")
RECURSIVE StripLeadingDotDot(_)
StripLeadingDotDot(s) ==
    IF Len(s) >= 2 /\ s[1] = ".." /\ s[2] = "/" THEN StripLeadingDotDot(SubSeq(s, 3, Len(s)))
    ELSE IF s = <<"..">> THEN <<>>
    ELSE s

\* .replace(/^\/+/, "")
RECURSIVE StripLeadingSlashes(_)
StripLeadingSlashes(s) ==
    IF s # <<>> /\ Head(s) = "/" THEN StripLeadingSlashes(Tail(s)) ELSE s

\* safeJoin: [threw, full]
safeJoin(rel) ==
    LET clean == StripLeadingSlashes(StripLeadingDotDot(rel))
        full == PathStr(pathResolve(SANDBOX, clean))
    IN [threw |-> ~startsWith(full, PathStr(SANDBOX)), full |-> full]

\* The disk of the Cloud Run worker: the sandbox directory, a directory
\* beside it whose name begins with its name, and the files cr.files.
CrSibling == << <<"tmp">>, <<"hocker-sandbox", "x">> >>
CrFilesInit ==
    { PathStr(Append(SANDBOX, <<"f">>)), PathStr(Append(CrSibling, <<"secret">>)) }
CrIsDir(full) ==
    \/ full \in {PathStr(SANDBOX), PathStr(CrSibling)}
    \/ \E f \in cr.files : startsWith(f, full \o <<"/">>)

\* String(payload?.k ?? "") for the string values used here
StrOf(payload, k) ==
    LET v == JGet(payload, k) IN IF v.t = "str" THEN v.v ELSE <<>>

\* Array.isArray(payload?.args) ? payload.args.map(String) : []
ArgsOf(payload) ==
    LET v == JGet(payload, "args")
    IN IF v.t = "arr" THEN [i \in 1..Len(v.el) |-> v.el[i].v] ELSE <<>>

\* what handleCommand returns or throws, the subprocess it spawned (spawn),
\* whether the timer killed it, and its filesystem call (fs)
CrNone == [threw |-> FALSE, val |-> JNull, spawn |-> <<>>, killed |-> FALSE, fs |-> <<>>]
CrThrown(msg) == [CrNone EXCEPT !.threw = TRUE, !.val = JStr(msg)]
CrReturned(val) == [CrNone EXCEPT !.val = val]
CrFs(r, op, full) == [r EXCEPT !.fs = <<[op |-> op, path |-> full]>>]

\* the ways a spawned child ends: it exits with a code before SHELL_TIMEOUT_MS,
\* or the timer kills it with SIGKILL and close reports code null
CrExits ==
    { [code |-> JNum(0), killed |-> FALSE],
      [code |-> JNum(1), killed |-> FALSE],
      [code |-> JNull, killed |-> TRUE] }

\* an execShell that spawns whatever it is given
execShellAllowedAny(c) == TRUE

\* allowlist.includes(cmd)
execShellAllowed(c) == c \in allowlist

execShell(c, args, exit) ==
    IF ~execShellAllowed(c)
    THEN CrThrown(<<"Shell bloqueado: ">> \o c \o <<" (no esta en allowlist)">>)
    ELSE [CrReturned(JObj(<<KV("code", exit.code)>>))
             EXCEPT !.spawn = <<[cmd |-> c, args |-> args]>>, !.killed = exit.killed]

handleCommand(command, payload, flags, exit) ==
    CASE command = <<"status">> ->
            CrReturned(JObj(<<KV("ok", JNum(1)), KV("node", JStr(CR_NODE_ID)),
                              KV("project", JStr(PROJECT_ID))>>))
      [] command = <<"fs.list">> ->
            LET rel == StrOf(payload, "path")
                g == safeJoin(IF rel = <<>> THEN <<".">> ELSE rel)
            IN IF ~flags.allowFs THEN CrThrown(<<"FS deshabilitado por system_controls">>)
               ELSE IF g.threw THEN CrThrown(<<"Path fuera de sandbox">>)
               ELSE IF ~CrIsDir(g.full) THEN CrFs(CrThrown(<<"ENOTDIR">>), "readdir", g.full)
               ELSE CrFs(CrReturned(JArr(<<>>)), "readdir", g.full)
      [] command = <<"fs.read">> ->
            LET g == safeJoin(StrOf(payload, "path"))
            IN IF ~flags.allowFs THEN CrThrown(<<"FS deshabilitado por system_controls">>)
               ELSE IF g.threw THEN CrThrown(<<"Path fuera de sandbox">>)
               ELSE IF g.full \notin cr.files THEN CrFs(CrThrown(<<"ENOENT">>), "readFile", g.full)
               ELSE CrFs(CrReturned(JObj(<<KV("ok", JNum(1))>>)), "readFile", g.full)
      [] command = <<"fs.write">> ->
            LET rel == StrOf(payload, "path")
                g == safeJoin(rel)
            IN IF ~flags.allowFs THEN CrThrown(<<"FS deshabilitado por system_controls">>)
               ELSE IF g.threw THEN CrThrown(<<"Path fuera de sandbox">>)
               ELSE IF CrIsDir(g.full) THEN CrFs(CrThrown(<<"EISDIR">>), "writeFile", g.full)
               ELSE CrFs(CrReturned(JObj(<<KV("ok", JNum(1)), KV("path", JStr(rel))>>)),
                         "writeFile", g.full)
      [] command = <<"shell.exec">> ->
            LET c == StrOf(payload, "cmd")
                args == ArgsOf(payload)
            IN IF ~flags.allowShell THEN CrThrown(<<"Shell deshabilitado por system_controls">>)
               ELSE IF c = <<>> THEN CrThrown(<<"Falta payload.cmd">>)
               ELSE execShell(c, args, exit)
      [] OTHER -> CrThrown(<<"Comando desconocido: ">> \o command)

\* a systemFlags whose allow_shell defaults to enabled
systemFlagsShellOn(data) ==
    [kill |-> data # <<>> /\ data[1].kill_switch,
     allowShell |-> ~(data # <<>> /\ data[1].allow_shell = FALSE),
     allowFs |-> ~(data # <<>> /\ data[1].allow_filesystem = FALSE)]

\* systemFlags on the record the select returned; data is <<>> when there is
\* no record or the select failed
systemFlags(data) ==
    [kill |-> data # <<>> /\ data[1].kill_switch,
     allowShell |-> data # <<>> /\ data[1].allow_shell,
     allowFs |-> ~(data # <<>> /\ data[1].allow_filesystem = FALSE)]

CrOthers == <<core, sig, ex, variants>>

CrSystemFlags ==
    /\ cr.pc = "systemFlags"
    /\ \E data \in {cr.controls, <<>>} :
          cr' = [cr EXCEPT !.data = data, !.flags = systemFlags(data),
                           !.pc = IF systemFlags(data).kill THEN "paused" ELSE "select"]
    /\ UNCHANGED CrOthers

\* the agent.paused insert, then return
CrPaused ==
    /\ cr.pc = "paused"
    /\ cr' = [cr EXCEPT !.pc = "systemFlags"]
    /\ UNCHANGED CrOthers

\* the select of queued rows, limit 1; cmds is null when it fails
CrSelect ==
    /\ cr.pc = "select"
    /\ \E ok \in BOOLEAN :
          IF /\ ok
             /\ cr.row.project_id = PROJECT_ID
             /\ cr.row.node_id = CR_NODE_ID
             /\ cr.row.status = "queued"
          THEN cr' = [cr EXCEPT !.cmd = <<cr.row>>, !.pc = "verify"]
          ELSE cr' = [cr EXCEPT !.pc = "systemFlags"]
    /\ UNCHANGED CrOthers

CrVerify ==
    /\ cr.pc = "verify"
    /\ LET c == cr.cmd[1]
           okSig == verifySignature(SIGNING_SECRET, c.signature,
                       [id |-> c.id, project_id |-> c.project_id, node_id |-> c.node_id,
                        command |-> c.command,
                        payload |-> Nullish(c.payload, JObj(<<>>))])
       IN IF okSig
          THEN cr' = [cr EXCEPT !.pc = "markRunning"]
          ELSE \E applied \in BOOLEAN :
                  cr' = [cr EXCEPT !.pc = "systemFlags", !.cmd = <<>>,
                                   !.row = IF applied
                                           THEN [cr.row EXCEPT !.status = "failed",
                                                     !.error = JStr(<<"Firma invalida">>),
                                                     !.finished_at = nowIso]
                                           ELSE cr.row]
    /\ UNCHANGED CrOthers

CrMarkRunning ==
    /\ cr.pc = "markRunning"
    /\ \E applied \in BOOLEAN :
          cr' = [cr EXCEPT !.pc = "handle",
                           !.row = IF applied
                                   THEN [cr.row EXCEPT !.status = "running",
                                                       !.executed_at = nowIso]
                                   ELSE cr.row]
    /\ UNCHANGED CrOthers

CrHandle ==
    /\ cr.pc = "handle"
    /\ \E exit \in CrExits :
          LET r == handleCommand(cr.cmd[1].command, cr.cmd[1].payload, cr.flags, exit)
              wrote == {r.fs[i].path : i \in {j \in 1..Len(r.fs) :
                                                 r.fs[j].op = "writeFile" /\ ~r.threw}}
          IN cr' = [cr EXCEPT !.pc = "finish", !.out = r,
                              !.spawned = @ \cup {r.spawn[i] : i \in 1..Len(r.spawn)},
                              !.files = @ \cup wrote]
    /\ UNCHANGED CrOthers

\* the update after the try, or the one in its catch
CrFinish ==
    /\ cr.pc = "finish"
    /\ \E applied \in BOOLEAN :
          cr' = [cr EXCEPT !.pc = "systemFlags", !.cmd = <<>>, !.out = CrNone,
                           !.row = IF ~applied THEN cr.row
                                   ELSE IF cr.out.threw
                                   THEN [cr.row EXCEPT !.status = "failed",
                                                       !.error = cr.out.val,
                                                       !.finished_at = nowIso]
                                   ELSE [cr.row EXCEPT !.status = "succeeded",
                                                       !.result = cr.out.val,
                                                       !.finished_at = nowIso]]
    /\ UNCHANGED CrOthers

\* the governance actor writes, replaces or removes the controls record
CrControls ==
    {<<>>} \cup {<<[kill_switch |-> k, allow_shell |-> s, allow_filesystem |-> f]>> :
                    k \in BOOLEAN, s \in BOOLEAN, f \in BOOLEAN}

CrSetControls ==
    /\ cr.pc # "idle"
    /\ \E c \in CrControls \ {cr.controls} : cr' = [cr EXCEPT !.controls = c]
    /\ UNCHANGED CrOthers

\* what the issuer may queue for the Cloud Run worker
CrJobs ==
    { [command |-> <<"status">>, payload |-> JObj(<<>>)],
      [command |-> <<"reboot">>, payload |-> JObj(<<>>)],
      [command |-> <<"shell.exec">>, payload |-> JNull],
      [command |-> <<"shell.exec">>, payload |-> JObj(<<KV("cmd", JStr(<<>>))>>)],
      [command |-> <<"shell.exec">>, payload |-> JObj(<<KV("cmd", JStr(<<"ls">>))>>)],
      [command |-> <<"shell.exec">>, payload |-> JObj(<<KV("cmd", JStr(<<"rm">>))>>)],
      [command |-> <<"shell.exec">>,
       payload |-> JObj(<<KV("cmd", JStr(<<"whoami">>)), KV("args", JArr(<<JStr(<<"-x">>)>>))>>)],
      [command |-> <<"shell.exec">>, payload |-> JObj(<<KV("cmd", JStr(<<"ls", " ", "-la">>))>>)],
      [command |-> <<"shell.exec">>, payload |-> JObj(<<KV("cmd", JStr(<<" ", "ls">>))>>)],
      [command |-> <<"fs.list">>, payload |-> JObj(<<>>)],
      [command |-> <<"fs.read">>, payload |-> JObj(<<KV("path", JStr(<<"f">>))>>)],
      [command |-> <<"fs.read">>,
       payload |-> JObj(<<KV("path", JStr(<<"a", "/", "..", "/", "..", "/",
                                           "hocker-sandbox", "x", "/", "secret">>))>>)],
      [command |-> <<"fs.write">>,
       payload |-> JObj(<<KV("path", JStr(<<"g">>)), KV("content", JStr(<<"hi">>))>>)] }

CrEnvs ==
    { <<>>, << <<"ls", ",", "whoami">> >>, << <<" ", "ls", " ", ",", ",", "whoami">> >>,
      << <<"rm">> >> }

CrRow(job, signed) ==
    LET input == [id |-> IdOf(1), project_id |-> PROJECT_ID, node_id |-> CR_NODE_ID,
                  command |-> job.command, payload |-> Nullish(job.payload, JObj(<<>>))]
    IN [id |-> IdOf(1), project_id |-> PROJECT_ID, node_id |-> CR_NODE_ID,
        command |-> job.command, payload |-> job.payload,
        signature |-> IF signed THEN signCommand(SIGNING_SECRET, input) ELSE JNull,
        status |-> "queued", executed_at |-> JNull, finished_at |-> JNull,
        result |-> JNull, error |-> JNull]

CrInit ==
    /\ Rest
    /\ controls = [kill_switch |-> FALSE, allow_write |-> FALSE]
    /\ insertFails = {FALSE}
    /\ sig = NoSig
    /\ ex = ExIdle
    /\ VariantsIdle
    /\ \E job \in CrJobs, signed \in BOOLEAN, e \in CrEnvs, c \in CrControls :
          cr = [pc |-> "systemFlags", env |-> e, controls |-> c, row |-> CrRow(job, signed),
                files |-> CrFilesInit, data |-> <<>>, flags |-> systemFlags(<<>>),
                cmd |-> <<>>,
                out |-> CrNone, spawned |-> {}]

CrNext ==
    \/ CrSystemFlags \/ CrPaused \/ CrSelect \/ CrVerify \/ CrMarkRunning
    \/ CrHandle \/ CrFinish \/ CrSetControls

CloudSpec == CrInit /\ [][CrNext]_vars

-----------------------------------------------------------------------------
(* The loopOnce worker that cancels by kill switch (unnamed/part_001,      *)
(* lines 1-304: getControls, claimQueued, finishOk, finishFail,            *)
(* cancelByKillswitch, execCommand, loopOnce), run by several processes    *)
(* against one backend.  Only claimQueued and the listing look at the      *)
(* error a backend call reports; an update that fails changes nothing and  *)
(* the worker goes on.  emitEvent follows its update in the same step.     *)

ALLOWLIST == {<<"ping">>, <<"status">>, <<"read_dir">>, <<"read_file_head">>}

LwJobs ==
    { [command |-> <<"ping">>, payload |-> JObj(<<>>), signed |-> TRUE],
      [command |-> <<"ping">>, payload |-> JNull, signed |-> FALSE],
      [command |-> <<"rm">>, payload |-> JObj(<<>>), signed |-> TRUE],
      [command |-> <<"read_dir">>, payload |-> JObj(<<KV("path", JStr(<<"..">>))>>),
       signed |-> TRUE] }

LwRow(i, job) ==
    [id |-> IdOf(i), project_id |-> PROJECT_ID, node_id |-> NODE_ID,
     command |-> job.command, payload |-> job.payload, status |-> "queued",
     signature |-> IF job.signed
                   THEN signCommandFabric(COMMAND_HMAC_SECRET, IdOf(i), PROJECT_ID, NODE_ID,
                                          job.command, Nullish(job.payload, JObj(<<>>)),
                                          CreatedAt(i))
                   ELSE JNull,
     created_at |-> CreatedAt(i), executed_at |-> JNull, result |-> JNull, error |-> JNull]

\* execCommand: [threw, val]
execCommand(name, payload) ==
    CASE name = <<"ping">> ->
            [threw |-> FALSE, val |-> JObj(<<KV("ok", JNum(1)), KV("pong", nowIso)>>)]
      [] name = <<"status">> ->
            [threw |-> FALSE, val |-> JObj(<<KV("ok", JNum(1)), KV("node_id", JStr(NODE_ID))>>)]
      [] name = <<"read_dir">> ->
            LET t == Trim(StrOf(payload, "path"))
                rel == IF t = <<>> THEN <<".">> ELSE t
                r == listDir(rel)
            IN IF r.threw THEN [threw |-> TRUE, val |-> JStr(r.msg)]
               ELSE [threw |-> FALSE,
                     val |-> JObj(<<KV("ok", JNum(1)), KV("path", JStr(rel))>>)]
      [] name = <<"read_file_head">> ->
            LET rel == Trim(StrOf(payload, "path"))
                b == JGet(payload, "bytes")
                r == readFileHead(rel, IF b.t = "num" /\ b.v # 0 THEN b.v ELSE FILE_HEAD_BYTES)
            IN IF rel = <<>> THEN [threw |-> TRUE, val |-> JStr(<<"payload.path requerido.">>)]
               ELSE IF r.threw THEN [threw |-> TRUE, val |-> JStr(r.msg)]
               ELSE [threw |-> FALSE,
                     val |-> JObj(<<KV("ok", JNum(1)), KV("path", JStr(rel))>>)]
      [] OTHER ->
            [threw |-> TRUE, val |-> JStr(<<"Comando no permitido por allowlist del agente.">>)]

\* the for body goes on with the next listed row; loopOnce returns after the last
LwContinue(p) ==
    IF Len(p.items) > 1
    THEN [p EXCEPT !.pc = "item", !.items = Tail(p.items), !.claimed = <<>>, !.out = <<>>]
    ELSE [p EXCEPT !.pc = "getControls", !.items = <<>>, !.claimed = <<>>, !.out = <<>>]

LwOthers == <<core, sig, ex, cr, pw, fw, cj, pg, rd, bl>>

LwGetControls(w) ==
    /\ lw.w[w].pc = "getControls"
    /\ \E ok \in BOOLEAN :
          lw' = [lw EXCEPT !.w[w].pc = "select",
                           !.w[w].controls = [kill_switch |-> ok /\ lw.kill_switch,
                                              allow_write |-> FALSE]]
    /\ UNCHANGED LwOthers

\* the listing of queued rows, oldest first, limit 10
LwSelect(w) ==
    /\ lw.w[w].pc = "select"
    /\ \E ok \in BOOLEAN :
          LET ids == Ascending({i \in CmdIds : /\ lw.rows[i].project_id = PROJECT_ID
                                                /\ lw.rows[i].node_id = NODE_ID
                                                /\ lw.rows[i].status = "queued"}, ListLimit)
              items == [k \in 1..Len(ids) |-> [i |-> ids[k], row |-> lw.rows[ids[k]]]]
          IN IF ok /\ items # <<>>
             THEN lw' = [lw EXCEPT !.w[w].pc = "item", !.w[w].items = items]
             ELSE lw' = [lw EXCEPT !.w[w].pc = "getControls"]
    /\ UNCHANGED LwOthers

\* if (controls.kill_switch) { await cancelByKillswitch(cmd.id); continue; }
LwCancel(w) ==
    /\ lw.w[w].pc = "item"
    /\ lw.w[w].controls.kill_switch
    /\ LET i == lw.w[w].items[1].i
       IN \E applied \in BOOLEAN :
             lw' = [lw EXCEPT
                      !.rows[i] = IF applied
                                  THEN [@ EXCEPT !.status = "cancelled", !.result = JNull,
                                           !.error = JStr(<<"Kill Switch ON: ejecucion bloqueada por governance.">>)]
                                  ELSE @,
                      !.events = @ \cup {<<"command.cancelled", i>>},
                      !.w[w] = LwContinue(@)]
    /\ UNCHANGED LwOthers

\* claimQueued and the command.running event
LwClaim(w) ==
    /\ lw.w[w].pc = "item"
    /\ ~lw.w[w].controls.kill_switch
    /\ LET i == lw.w[w].items[1].i
       IN \E ok \in BOOLEAN :
             IF ok /\ lw.rows[i].project_id = PROJECT_ID /\ lw.rows[i].status = "queued"
             THEN LET r == [lw.rows[i] EXCEPT !.status = "running", !.executed_at = nowIso]
                  IN lw' = [lw EXCEPT !.rows[i] = r,
                                      !.events = @ \cup {<<"command.running", i>>},
                                      !.claims[i] = @ \cup {w},
                                      !.w[w].pc = "exec", !.w[w].claimed = <<r>>]
             ELSE lw' = [lw EXCEPT !.w[w] = LwContinue(@)]
    /\ UNCHANGED LwOthers

\* the signature check, the allowlist gate and execCommand in its try
LwExec(w) ==
    /\ lw.w[w].pc = "exec"
    /\ LET c == lw.w[w].claimed[1]
           okSig == verifyCommand(COMMAND_HMAC_SECRET, c.id, PROJECT_ID, NODE_ID, c.command,
                                  Nullish(c.payload, JObj(<<>>)), c.created_at,
                                  Nullish(c.signature, JNull))
           res == IF ~okSig
                  THEN [threw |-> TRUE,
                        val |-> JStr(<<"Firma invalida (HMAC). Comando bloqueado.">>)]
                  ELSE IF c.command \notin ALLOWLIST
                  THEN [threw |-> TRUE,
                        val |-> JStr(<<"Comando \"">> \o c.command
                                        \o <<"\" bloqueado (no esta en allowlist).">>)]
                  ELSE execCommand(c.command, Nullish(c.payload, JObj(<<>>)))
       IN lw' = [lw EXCEPT !.w[w].pc = "finish", !.w[w].out = <<res>>]
    /\ UNCHANGED LwOthers

\* finishOk / finishFail: the update by id and project_id, then the event
LwFinish(w) ==
    /\ lw.w[w].pc = "finish"
    /\ LET i == lw.w[w].items[1].i
           res == lw.w[w].out[1]
       IN \E applied \in BOOLEAN :
             lw' = [lw EXCEPT
                      !.rows[i] = IF ~applied THEN @
                                  ELSE IF res.threw
                                  THEN [@ EXCEPT !.status = "failed", !.error = res.val,
                                                 !.result = JNull]
                                  ELSE [@ EXCEPT !.status = "done", !.result = res.val,
                                                 !.error = JNull],
                      !.events = @ \cup {<<IF res.threw THEN "command.failed"
                                                         ELSE "command.done", i>>},
                      !.w[w] = LwContinue(@)]
    /\ UNCHANGED LwOthers

\* the governance actor turns the kill switch on or off
LwSetKillSwitch ==
    /\ lw # LwIdle
    /\ lw' = [lw EXCEPT !.kill_switch = ~@]
    /\ UNCHANGED LwOthers

LwInit ==
    /\ Rest
    /\ controls = [kill_switch |-> FALSE, allow_write |-> FALSE]
    /\ insertFails = {FALSE}
    /\ sig = NoSig
    /\ ex = ExIdle
    /\ cr = CrIdle
    /\ pw = PwIdle
    /\ bl = BlIdle
    /\ fw = FwIdle
    /\ cj = CjIdle
    /\ pg = PgIdle
    /\ rd = RdIdle
    /\ \E jobs \in [CmdIds -> LwJobs], k \in BOOLEAN :
          lw = [rows |-> [i \in CmdIds |-> LwRow(i, jobs[i])],
                kill_switch |-> k, events |-> {},
                claims |-> [i \in CmdIds |-> {}],
                w |-> [w \in Workers |->
                         [pc |-> "getControls",
                          controls |-> [kill_switch |-> FALSE, allow_write |-> FALSE],
                          items |-> <<>>, claimed |-> <<>>, out |-> <<>>]]]

LwNext ==
    \/ \E w \in Workers :
          \/ LwGetControls(w) \/ LwSelect(w) \/ LwCancel(w) \/ LwClaim(w)
          \/ LwExec(w) \/ LwFinish(w)
    \/ LwSetKillSwitch

KillswitchSpec == LwInit /\ [][LwNext]_vars

-----------------------------------------------------------------------------
(* The interval-driven worker (unnamed/part_003: pollCommands started by   *)
(* setInterval every 3 s) with verifyCommandSignature (./security.js) and  *)
(* executeLocalCommand (lib/sandbox.ts:16-57).  An invocation is named     *)
(* <<w, k>>: process w, timer slot k; the timer starts an invocation       *)
(* whether or not an earlier one of the process has returned.  Only the    *)
(* listing looks at the error of its backend call.  The langfuse trace is  *)
(* left out.                                                               *)

PollLimit == 5
PollSlots == {1, 2}
PollInv == Workers \X PollSlots

verifyCommandSignature(id, project_id, node_id, command, payload, created_at, providedSignature) ==
    LET payloadStr == JSONstringify(sortKeysDeep(IF Falsy(payload) THEN JObj(<<>>) ELSE payload))
        data == JoinWith(<<id, project_id, node_id, command, payloadStr, created_at>>, <<"|">>)
    IN providedSignature = Hmac(COMMAND_HMAC_SECRET, data, "hex")

\* executeLocalCommand: [ok, val, fx]; exit is the way the child of
\* execAsync ends
executeLocalCommand(command, payload, exit) ==
    CASE command = <<"shell.exec">> ->
            LET script == JGet(payload, "script")
            IN IF Falsy(script)
               THEN [ok |-> FALSE, val |-> JStr(<<"Falla tactica: Falta payload.script">>),
                     fx |-> {}]
               ELSE [ok |-> exit = "exit0",
                     val |-> CASE exit = "exit0" -> JObj(<<KV("stdout", JStr(<<>>))>>)
                               [] exit = "timeout" ->
                                     JStr(<<"[CRITICAL] Proceso asesinado por exceder el tiempo limite (Timeout).">>)
                               [] OTHER -> JStr(<<"Command failed">>),
                     fx |-> {[op |-> "exec", arg |-> script.v]}]
      [] command = <<"fs.write">> ->
            LET path == JGet(payload, "path")
                content == JGet(payload, "content")
            IN IF Falsy(path) \/ Falsy(content)
               THEN [ok |-> FALSE, val |-> JStr(<<"Falla tactica: Falta path o content">>),
                     fx |-> {}]
               ELSE [ok |-> TRUE,
                     val |-> JObj(<<KV("message", JStr(<<"Archivo inyectado en ">> \o path.v))>>),
                     fx |-> {[op |-> "writeFile", arg |-> path.v]}]
      [] command = <<"ping">> ->
            [ok |-> TRUE, val |-> JObj(<<KV("message", JStr(<<"pong">>))>>), fx |-> {}]
      [] OTHER ->
            [ok |-> FALSE,
             val |-> JStr(<<"Protocolo desconocido: '">> \o command
                             \o <<"' no esta mapeado en la Matriz local.">>),
             fx |-> {}]

PwJobs ==
    { [command |-> <<"ping">>, payload |-> JObj(<<>>), signed |-> TRUE],
      [command |-> <<"ping">>, payload |-> JNull, signed |-> FALSE],
      [command |-> <<"shell.exec">>, payload |-> JObj(<<KV("script", JStr(<<"ls">>))>>),
       signed |-> TRUE],
      [command |-> <<"fs.write">>,
       payload |-> JObj(<<KV("path", JStr(<<"/", "etc", "/", "x">>)),
                          KV("content", JStr(<<"hi">>))>>),
       signed |-> TRUE] }

PwRow(i, job) ==
    [id |-> IdOf(i), project_id |-> PROJECT_ID, node_id |-> NODE_ID,
     command |-> job.command, payload |-> job.payload, created_at |-> CreatedAt(i),
     signature |-> IF job.signed
                   THEN signCommandFabric(COMMAND_HMAC_SECRET, IdOf(i), PROJECT_ID, NODE_ID,
                                          job.command, job.payload, CreatedAt(i))
                   ELSE JNull,
     status |-> "queued", needs_approval |-> FALSE, executed_at |-> JNull,
     finished_at |-> JNull, result |-> JNull, error_text |-> JNull]

\* the for loop goes on with the next row of its batch; pollCommands
\* returns after the last
PwContinue(p) ==
    IF Len(p.batch) > 1
    THEN [p EXCEPT !.pc = "verify", !.batch = Tail(p.batch), !.res = <<>>]
    ELSE [p EXCEPT !.pc = "idle", !.batch = <<>>, !.res = <<>>]

PwOthers == <<core, sig, ex, cr, lw, fw, cj, pg, rd, bl>>

\* setInterval(pollCommands, 3000) calls pollCommands
PwTick(v) ==
    /\ pw.inv[v].pc = "idle"
    /\ pw' = [pw EXCEPT !.inv[v].pc = "select"]
    /\ UNCHANGED PwOthers

PwSelect(v) ==
    /\ pw.inv[v].pc = "select"
    /\ \E ok \in BOOLEAN :
          LET ids == Ascending({i \in CmdIds : /\ pw.rows[i].project_id = PROJECT_ID
                                                /\ pw.rows[i].node_id = NODE_ID
                                                /\ pw.rows[i].status = "queued"
                                                /\ ~pw.rows[i].needs_approval}, PollLimit)
              batch == [k \in 1..Len(ids) |-> [i |-> ids[k], row |-> pw.rows[ids[k]]]]
          IN IF ok /\ batch # <<>>
             THEN pw' = [pw EXCEPT !.inv[v].pc = "verify", !.inv[v].batch = batch]
             ELSE pw' = [pw EXCEPT !.inv[v].pc = "idle"]
    /\ UNCHANGED PwOthers

\* verifyCommandSignature on the listed row, then the update that sets an
\* invalid one to error, or a valid one to running, by id
PwVerify(v) ==
    /\ pw.inv[v].pc = "verify"
    /\ LET i == pw.inv[v].batch[1].i
           c == pw.inv[v].batch[1].row
           isValid == verifyCommandSignature(c.id, c.project_id, c.node_id, c.command,
                                             c.payload, c.created_at, c.signature)
       IN \E applied \in BOOLEAN :
             IF isValid
             THEN pw' = [pw EXCEPT !.rows[i] = IF applied
                                               THEN [@ EXCEPT !.status = "running",
                                                              !.executed_at = nowIso]
                                               ELSE @,
                                   !.inv[v].pc = "execute"]
             ELSE pw' = [pw EXCEPT
                           !.rows[i] = IF applied
                                       THEN [@ EXCEPT !.status = "error",
                                                !.error_text = JStr(<<"Fallo de validacion criptografica (Posible inyeccion maliciosa).">>),
                                                !.finished_at = nowIso]
                                       ELSE @,
                           !.inv[v] = PwContinue(@)]
    /\ UNCHANGED PwOthers

PwExecute(v) ==
    /\ pw.inv[v].pc = "execute"
    /\ LET i == pw.inv[v].batch[1].i
           c == pw.inv[v].batch[1].row
       IN \E exit \in {"exit0", "exit1", "timeout"} :
             LET result == executeLocalCommand(c.command, c.payload, exit)
             IN pw' = [pw EXCEPT !.inv[v].pc = "report", !.inv[v].res = <<result>>,
                                 !.ran[i] = @ \cup {v},
                                 !.fx = @ \cup result.fx]
    /\ UNCHANGED PwOthers

\* the update to done or failed, by id
PwReport(v) ==
    /\ pw.inv[v].pc = "report"
    /\ LET i == pw.inv[v].batch[1].i
           result == pw.inv[v].res[1]
       IN \E applied \in BOOLEAN :
             pw' = [pw EXCEPT
                      !.rows[i] = IF ~applied THEN @
                                  ELSE IF result.ok
                                  THEN [@ EXCEPT !.status = "done", !.result = result.val,
                                                 !.finished_at = nowIso]
                                  ELSE [@ EXCEPT !.status = "failed",
                                                 !.error_text = result.val,
                                                 !.finished_at = nowIso],
                      !.inv[v] = PwContinue(@)]
    /\ UNCHANGED PwOthers

PwInit ==
    /\ Rest
    /\ controls = [kill_switch |-> FALSE, allow_write |-> FALSE]
    /\ insertFails = {FALSE}
    /\ sig = NoSig
    /\ ex = ExIdle
    /\ cr = CrIdle
    /\ lw = LwIdle
    /\ bl = BlIdle
    /\ fw = FwIdle
    /\ cj = CjIdle
    /\ pg = PgIdle
    /\ rd = RdIdle
    /\ \E jobs \in [CmdIds -> PwJobs] :
          pw = [rows |-> [i \in CmdIds |-> PwRow(i, jobs[i])],
                ran |-> [i \in CmdIds |-> {}], fx |-> {},
                inv |-> [v \in PollInv |-> [pc |-> "idle", batch |-> <<>>, res |-> <<>>]]]

PwNext(S) ==
    \E v \in S :
       \/ PwTick(v) \/ PwSelect(v) \/ PwVerify(v) \/ PwExecute(v) \/ PwReport(v)

\* several processes, one pollCommands invocation at a time in each
PollSpec == PwInit /\ [][PwNext({v \in PollInv : v[2] = 1})]_vars

\* one process, whose timer fires while an invocation is under way
OverlapSpec == PwInit /\ [][PwNext({v \in PollInv : v[1] = 1})]_vars

\* executeLocalCommand as pollCommands drives it: one invocation, the
\* project's capability flags set either way, and shell and file commands
\* of every kind on the queue.  process.cwd() is /app, so that the
\* configured root ./sandbox is sandboxRoot.
PwCwd == << <<"app">> >>

GateJobs ==
    { [command |-> <<"ping">>, payload |-> JObj(<<>>), signed |-> TRUE],
      [command |-> <<"shell.exec">>, payload |-> JObj(<<KV("script", JStr(<<"ls">>))>>),
       signed |-> TRUE],
      [command |-> <<"shell.exec">>,
       payload |-> JObj(<<KV("script", JStr(<<"rm", " ", "-rf", " ", "/">>))>>),
       signed |-> TRUE],
      [command |-> <<"fs.write">>,
       payload |-> JObj(<<KV("path", JStr(<<"sandbox", "/", "x">>)),
                          KV("content", JStr(<<"hi">>))>>),
       signed |-> TRUE],
      [command |-> <<"fs.write">>,
       payload |-> JObj(<<KV("path", JStr(<<"/", "etc", "/", "x">>)),
                          KV("content", JStr(<<"hi">>))>>),
       signed |-> TRUE],
      [command |-> <<"fs.write">>,
       payload |-> JObj(<<KV("path", JStr(<<"sandbox", "/", "..", "/", "x">>)),
                          KV("content", JStr(<<"hi">>))>>),
       signed |-> TRUE] }

GateInit ==
    /\ Rest
    /\ controls \in {[kill_switch |-> FALSE, allow_write |-> f, allow_shell |-> h] :
                        f \in BOOLEAN, h \in BOOLEAN}
    /\ insertFails = {FALSE}
    /\ sig = NoSig
    /\ ex = ExIdle
    /\ cr = CrIdle
    /\ lw = LwIdle
    /\ bl = BlIdle
    /\ fw = FwIdle
    /\ cj = CjIdle
    /\ pg = PgIdle
    /\ rd = RdIdle
    /\ \E jobs \in [CmdIds -> GateJobs] :
          pw = [rows |-> [i \in CmdIds |-> PwRow(i, jobs[i])],
                ran |-> [i \in CmdIds |-> {}], fx |-> {},
                inv |-> [v \in PollInv |-> [pc |-> "idle", batch |-> <<>>, res |-> <<>>]]]

GateSpec == GateInit /\ [][PwNext({v \in PollInv : v[1] = 1 /\ v[2] = 1})]_vars

-----------------------------------------------------------------------------
(* The Fabric worker (unnamed/part_001, lines 304-507: getControls,        *)
(* fetchQueued, claimQueued, finishOk, finishErr, cancel, runCommand,      *)
(* loop).  One worker, one command row.  None of its backend calls looks   *)
(* at the error reported.  writeLocalFile and executeLocalShell are        *)
(* imported from ./lib/sandbox.js, which does not hold them: they are      *)
(* taken from the specification of the executor (fs.write is gated by      *)
(* allow_write, read again at dispatch, an unreadable record being the     *)
(* restrictive one; the path is confined to the sandbox root).             *)

\* getControls on the record the select returned, <<>> when there is none
\* or the select failed
FwControlsOf(data) ==
    [kill_switch |-> data # <<>> /\ data[1].kill_switch,
     allow_write |-> data # <<>> /\ data[1].allow_write]

\* a writeLocalFile that asks for no capability
writeLocalFileUngated(path, content, data) ==
    LET g == safeSandboxPath(IF path.t = "str" THEN path.v ELSE <<>>)
    IN IF g.threw THEN [threw |-> TRUE, val |-> JStr(<<"PathTraversal">>), wrote |-> {}]
       ELSE [threw |-> FALSE, val |-> JStr(g.full), wrote |-> {g.full}]

writeLocalFile(path, content, data) ==
    LET g == safeSandboxPath(IF path.t = "str" THEN path.v ELSE <<>>)
    IN IF ~FwControlsOf(data).allow_write
       THEN [threw |-> TRUE, val |-> JStr(<<"GovernanceBlocked">>), wrote |-> {}]
       ELSE IF g.threw
       THEN [threw |-> TRUE, val |-> JStr(<<"PathTraversal">>), wrote |-> {}]
       ELSE [threw |-> FALSE, val |-> JStr(g.full), wrote |-> {g.full}]

\* executeLocalShell: it returns the output of the script or throws
executeLocalShell(script, timeout, ok) ==
    IF ok THEN [threw |-> FALSE, val |-> JObj(<<KV("stdout", JStr(<<>>))>>), wrote |-> {}]
    ELSE [threw |-> TRUE, val |-> JStr(<<"shell_failed">>), wrote |-> {}]

\* runCommand of the Fabric worker: [threw, val, wrote]; data is the
\* controls record writeLocalFile reads, ok the outcome of the script
FwRunCommandOf(c, data, ok) ==
    LET payload == Nullish(c.payload, JObj(<<>>))
        done(v) == [threw |-> FALSE, val |-> v, wrote |-> {}]
        fail(m) == [threw |-> TRUE, val |-> JStr(m), wrote |-> {}]
    IN IF ~verifyCommand(COMMAND_HMAC_SECRET, c.id, c.project_id, c.node_id, c.command,
                         c.payload, c.created_at, c.signature)
       THEN fail(<<"invalid_signature">>)
       ELSE CASE c.command = <<"ping">> -> done(JObj(<<KV("ok", JNum(1)), KV("pong", JNum(1))>>))
              [] c.command = <<"status">> ->
                    done(JObj(<<KV("ok", JNum(1)), KV("node_id", JStr(NODE_ID))>>))
              [] c.command = <<"read_dir">> ->
                    LET p == StrOf(payload, "path")
                        relDir == IF p = <<>> THEN <<".">> ELSE p
                        r == listDir(relDir)
                    IN IF r.threw THEN fail(r.msg)
                       ELSE done(JObj(<<KV("ok", JNum(1)), KV("path", JStr(relDir))>>))
              [] c.command = <<"read_file_head">> ->
                    LET relPath == StrOf(payload, "path")
                        mb == JGet(payload, "maxBytes")
                        maxBytes == Min(MaxBytesCeil,
                                        Max(MaxBytesFloor,
                                            IF mb.t = "num" /\ mb.v # 0 THEN mb.v
                                            ELSE MaxBytesDefault))
                        r == readFileHead(relPath, maxBytes)
                    IN IF r.threw THEN fail(r.msg)
                       ELSE done(JObj(<<KV("ok", JNum(1)), KV("path", JStr(relPath))>>))
              [] c.command = <<"shell.exec">> ->
                    executeLocalShell(JGet(payload, "script"), JGet(payload, "timeout"), ok)
              [] c.command = <<"fs.write">> ->
                    LET r == writeLocalFile(JGet(payload, "path"), JGet(payload, "content"), data)
                    IN IF r.threw THEN r
                       ELSE [r EXCEPT !.val = JObj(<<KV("ok", JNum(1)), KV("writtenPath", r.val)>>)]
              [] OTHER -> fail(<<"command_not_allowed: ">> \o c.command)

FwJobs ==
    { [command |-> <<"ping">>, payload |-> JObj(<<>>), signed |-> TRUE],
      [command |-> <<"rm">>, payload |-> JObj(<<>>), signed |-> TRUE],
      [command |-> <<"read_dir">>, payload |-> JNull, signed |-> TRUE],
      [command |-> <<"shell.exec">>, payload |-> JObj(<<KV("script", JStr(<<"ls">>))>>),
       signed |-> TRUE],
      [command |-> <<"fs.write">>,
       payload |-> JObj(<<KV("path", JStr(<<"g">>)), KV("content", JStr(<<"hi">>))>>),
       signed |-> TRUE],
      [command |-> <<"fs.write">>,
       payload |-> JObj(<<KV("path", JStr(<<"..", "/", "x">>)), KV("content", JStr(<<"hi">>))>>),
       signed |-> TRUE],
      [command |-> <<"fs.write">>,
       payload |-> JObj(<<KV("path", JStr(<<"g">>)), KV("content", JStr(<<"hi">>))>>),
       signed |-> FALSE] }

FwRow(job) ==
    [id |-> IdOf(1), project_id |-> PROJECT_ID, node_id |-> NODE_ID,
     created_at |-> CreatedAt(1), status |-> "queued", needs_approval |-> FALSE,
     command |-> job.command, payload |-> job.payload,
     signature |-> IF job.signed
                   THEN signCommandFabric(COMMAND_HMAC_SECRET, IdOf(1), PROJECT_ID, NODE_ID,
                                          job.command, job.payload, CreatedAt(1))
                   ELSE JNull,
     started_at |-> JNull, executed_at |-> JNull, finished_at |-> JNull,
     result |-> JNull, error |-> JNull]

FwRecords ==
    {<<>>} \cup {<<[kill_switch |-> k, allow_write |-> a]>> : k \in BOOLEAN, a \in BOOLEAN}

FwOthers == <<core, sig, ex, cr, lw, pw, cj, pg, rd, bl>>

\* upsertNode, getControls, and the pause under the kill switch
FwGetControls ==
    /\ fw.pc = "getControls"
    /\ \E data \in {fw.controls, <<>>} :
          fw' = [fw EXCEPT !.pc = IF FwControlsOf(data).kill_switch THEN "getControls"
                                  ELSE "fetchQueued"]
    /\ UNCHANGED FwOthers

FwFetchQueued ==
    /\ fw.pc = "fetchQueued"
    /\ \E ok \in BOOLEAN :
          IF /\ ok
             /\ fw.row.project_id = PROJECT_ID
             /\ fw.row.node_id = NODE_ID
             /\ fw.row.status = "queued"
             /\ ~fw.row.needs_approval
          THEN fw' = [fw EXCEPT !.pc = "claimQueued"]
          ELSE fw' = [fw EXCEPT !.pc = "getControls"]
    /\ UNCHANGED FwOthers

FwClaimQueued ==
    /\ fw.pc = "claimQueued"
    /\ \E ok \in BOOLEAN :
          IF ok /\ fw.row.project_id = PROJECT_ID /\ fw.row.status = "queued"
          THEN LET r == [fw.row EXCEPT !.status = "running", !.started_at = nowIso,
                                       !.executed_at = nowIso]
               IN fw' = [fw EXCEPT !.row = r, !.cmd = <<r>>, !.pc = "getControls2"]
          ELSE fw' = [fw EXCEPT !.pc = "getControls"]
    /\ UNCHANGED FwOthers

\* controls2, then cancel or the command.started event
FwGetControls2 ==
    /\ fw.pc = "getControls2"
    /\ \E data \in {fw.controls, <<>>} :
          IF FwControlsOf(data).kill_switch
          THEN \E applied \in BOOLEAN :
                  fw' = [fw EXCEPT !.pc = "getControls", !.cmd = <<>>,
                                   !.row = IF applied
                                           THEN [@ EXCEPT !.status = "canceled",
                                                    !.finished_at = nowIso, !.result = JNull,
                                                    !.error = JStr(<<"Kill switch activado durante intercepcion.">>)]
                                           ELSE @]
          ELSE fw' = [fw EXCEPT !.pc = "runCommand",
                                !.events = @ \cup {"command.started"}]
    /\ UNCHANGED FwOthers

FwRunCommand ==
    /\ fw.pc = "runCommand"
    /\ \E data \in {fw.controls, <<>>}, ok \in BOOLEAN :
          LET r == FwRunCommandOf(fw.cmd[1], data, ok)
          IN fw' = [fw EXCEPT !.pc = "finish", !.out = <<r>>, !.files = @ \cup r.wrote]
    /\ UNCHANGED FwOthers

\* finishOk or finishErr, and the event after it
FwFinish ==
    /\ fw.pc = "finish"
    /\ LET r == fw.out[1]
       IN \E applied \in BOOLEAN :
             fw' = [fw EXCEPT
                      !.pc = "getControls", !.cmd = <<>>, !.out = <<>>,
                      !.events = @ \cup {IF r.threw THEN "command.error" ELSE "command.done"},
                      !.row = IF ~applied THEN @
                              ELSE IF r.threw
                              THEN [@ EXCEPT !.status = "error", !.finished_at = nowIso,
                                             !.result = JNull, !.error = r.val]
                              ELSE [@ EXCEPT !.status = "done", !.finished_at = nowIso,
                                             !.result = r.val, !.error = JNull]]
    /\ UNCHANGED FwOthers

\* the governance actor writes, replaces or removes the controls record
FwSetControls ==
    /\ fw # FwIdle
    /\ \E c \in FwRecords \ {fw.controls} : fw' = [fw EXCEPT !.controls = c]
    /\ UNCHANGED FwOthers

FwInit ==
    /\ Rest
    /\ controls = [kill_switch |-> FALSE, allow_write |-> FALSE]
    /\ insertFails = {FALSE}
    /\ sig = NoSig
    /\ ex = ExIdle
    /\ cr = CrIdle
    /\ lw = LwIdle
    /\ bl = BlIdle
    /\ pw = PwIdle
    /\ cj = CjIdle
    /\ pg = PgIdle
    /\ rd = RdIdle
    /\ \E job \in FwJobs, c \in FwRecords :
          fw = [pc |-> "getControls", controls |-> c, row |-> FwRow(job), cmd |-> <<>>,
                out |-> <<>>, files |-> {}, events |-> {"agent.boot"}]

FwNext ==
    \/ FwGetControls \/ FwFetchQueued \/ FwClaimQueued \/ FwGetControls2
    \/ FwRunCommand \/ FwFinish \/ FwSetControls

FabricSpec == FwInit /\ [][FwNext]_vars

-----------------------------------------------------------------------------
(* Properties of the worker loop *)

Terminal == {"done", "error", "canceled"}
Dispatched == {"runCommand", "finishOk", "finishErr"}

\* C1: of the workers whose claim update was executed for one row, exactly
\* one got the row back; the row moves to running once, from queued, in the
\* step of that worker; a claim on a row already taken returns null and
\* leaves every row as it was.
ClaimOnce ==
    /\ [](\A i \in CmdIds :
            /\ Cardinality(hist.got[i]) <= 1
            /\ hist.tried[i] # {} => Cardinality(hist.got[i]) = 1
            /\ hist.got[i] \subseteq hist.tried[i])
    /\ [][\A i \in DOMAIN rows :
            (rows'[i].status = "running" /\ rows[i].status # "running")
               => /\ rows[i].status = "queued"
                  /\ hist.got[i] = {}
                  /\ Cardinality(hist'.got[i]) = 1]_vars
    /\ [][\A w \in Workers :
            (ClaimQueued(w) /\ hist.got[Head(queued[w])] # {})
               => (rows' = rows /\ cmd'[w] = <<>>)]_vars

\* two workers' claim updates were executed for the same row, one got it
ClaimRaced ==
    \E i \in CmdIds : Cardinality(hist.tried[i]) >= 2 /\ Cardinality(hist.got[i]) = 1

\* C2: no command is passed to runCommand more than once
RunAtMostOnce == \A i \in CmdIds : hist.runs[i] <= 1

\* a command both workers tried to claim was run, and its worker has gone on
RanOnceAfterRace ==
    \E i \in DOMAIN rows :
        /\ hist.runs[i] = 1
        /\ Cardinality(hist.tried[i]) >= 2
        /\ rows[i].status \in Terminal
        /\ \A w \in Workers : cmd[w] = <<>>

\* C3: an executor action happens only for a row whose stored fields verify;
\* a command that was run and does not verify is never done or canceled, its
\* finish writes status error; the runCommand step itself writes nothing.
VerifiedBeforeExecution ==
    /\ [](\A e \in hist.fx : e.verified)
    /\ [](\A i \in DOMAIN rows :
            (hist.runs[i] >= 1 /\ ~Verifies(rows[i]))
               => /\ rows[i].status \in {"running", "error"}
                  /\ rows[i].result = JNull)
    /\ [][\A w \in Workers :
            RunCommand(w) => (rows' = rows /\ events' = events /\ controls' = controls)]_vars
    /\ [][\A w \in Workers :
            (pc[w] = "runCommand" /\ pc'[w] # "runCommand" /\ ~Verifies(cmd[w][1]))
               => (pc'[w] = "finishErr" /\ out'[w].val = JStr(<<"invalid_signature">>))]_vars

\* an unsigned command was claimed, run and ended in error with invalid_signature
UnverifiedFailed ==
    \E i \in DOMAIN rows :
        /\ hist.runs[i] = 1
        /\ ~Verifies(rows[i])
        /\ rows[i].status = "error"
        /\ rows[i].error = JStr(<<"invalid_signature">>)

\* C5, as claimed: a claimed command signed with signCommandFabric or
\* signCommandV2 over its own fields passes the check in runCommand, and a
\* ping so signed does not end in error for its signature.
SignedFabricOrV2(r) ==
    \/ r.signature = signCommandFabric(COMMAND_HMAC_SECRET, r.id, r.project_id, r.node_id,
                                       r.command, r.payload, r.created_at)
    \/ r.signature = signCommandV2(COMMAND_HMAC_SECRET, r.id, r.project_id, r.node_id,
                                   r.command, r.payload, r.created_at)

SignedCommandPasses ==
    /\ \A w \in Workers :
          (pc[w] \in {"finishOk", "finishErr"} /\ SignedFabricOrV2(cmd[w][1]))
             => out[w].val # JStr(<<"invalid_signature">>)
    /\ \A i \in DOMAIN rows :
          (SignedFabricOrV2(rows[i]) /\ rows[i].command = <<"ping">>)
             => rows[i].error # JStr(<<"invalid_signature">>)

\* C6, as claimed: no row goes from queued to running while the Controls
\* record holds kill_switch = true.
NoClaimUnderKillSwitch ==
    [][\A i \in DOMAIN rows :
          (rows[i].status = "queued" /\ rows'[i].status = "running")
             => ~controls.kill_switch]_vars

\* C6, amended: a worker lists and claims only in an iteration whose first
\* getControls returned kill_switch = false, and runs a claimed command only
\* if the getControls after the claim returned false; if that one returned
\* true the worker is on its way to cancel.
ClaimGatedByReads ==
    \A w \in Workers :
        /\ pc[w] \in {"fetchQueued", "claim", "getControls2", "cancel"} \cup Dispatched
              => (cyc[w] # <<>> /\ ~cyc[w][1].kill_switch)
        /\ pc[w] \in Dispatched => (Len(cyc[w]) = 2 /\ ~cyc[w][2].kill_switch)
        /\ pc[w] = "cancel" => (Len(cyc[w]) = 2 /\ cyc[w][2].kill_switch)

\* the switch went on after the first read; the row was claimed under it and
\* the second read sends it to cancel
ClaimedUnderKillSwitch ==
    \E w \in Workers :
        /\ pc[w] = "cancel"
        /\ controls.kill_switch
        /\ rows[CmdKey(w)].status = "running"

\* C7: a command that was passed to runCommand is never canceled, whatever
\* the kill switch does afterwards: its status stays running until a finish
\* writes done or error, and a dispatched worker never turns to cancel.
DispatchedNotPreempted ==
    /\ [](\A i \in DOMAIN rows :
            hist.runs[i] >= 1 =>
               /\ rows[i].status \in {"running", "done", "error"}
               /\ rows[i].error # JStr(<<"Kill switch ON">>))
    /\ [][\A w \in Workers :
            pc[w] \in Dispatched => pc'[w] # "cancel"]_vars

\* the kill switch went on while the command was in flight, and it ended in error
FinishedUnderKillSwitch ==
    \E i \in hist.ksInFlight : rows[i].status = "error"

\* C8: in an iteration whose first getControls returned kill_switch = true
\* the worker is at the kill-switch branch with nothing listed and nothing
\* claimed, and its steps up to the next iteration change no command row.
KillSwitchCycleIdle ==
    /\ [](\A w \in Workers :
            (cyc[w] # <<>> /\ cyc[w][1].kill_switch)
               => (pc[w] = "emitKillSwitch" /\ queued[w] = <<>> /\ cmd[w] = <<>>))
    /\ [][\A w \in Workers :
            (pc[w] \in {"upsertNode", "getControls", "emitKillSwitch"} /\ Step(w))
               => rows' = rows]_vars
    /\ [][\A w \in Workers :
            (pc[w] = "emitKillSwitch" /\ Step(w)) => pc'[w] = "upsertNode"]_vars

\* a worker read kill_switch = true while a row for it is queued
PausedWithQueuedRow ==
    \E w \in Workers :
        /\ pc[w] = "emitKillSwitch"
        /\ cyc[w][1].kill_switch
        /\ \E i \in DOMAIN rows : fetchFilter(rows[i])

\* C9, as claimed: when a worker is about to claim another row or begins
\* another poll cycle, every row it has claimed is in a terminal status.
ClaimedReachTerminal ==
    \A w \in Workers :
        pc[w] \in {"claim", "upsertNode"}
           => \A i \in DOMAIN rows : w \in hist.got[i] => rows[i].status \in Terminal

\* C10: a status changes only from queued to running and from running to a
\* terminal status, and a row in a terminal status is never written again.
ForwardOnly ==
    [][\A i \in DOMAIN rows :
          /\ rows[i].status = "running" => rows'[i].status # "queued"
          /\ rows[i].status \in Terminal => rows'[i] = rows[i]
          /\ rows'[i].status # rows[i].status
                => \/ rows[i].status = "queued" /\ rows'[i].status = "running"
                   \/ rows[i].status = "running" /\ rows'[i].status \in Terminal]_vars

\* a row is terminal although a second worker's claim was executed for it
TerminalAfterRace ==
    \E i \in DOMAIN rows :
        rows[i].status \in Terminal /\ Cardinality(hist.tried[i]) >= 2

\* the status values of CommandRow, and those of the specification
CodeStatuses == {"queued", "needs_approval", "running", "done", "error", "canceled"}
SpecStatuses == {"queued", "needs_approval", "running", "done", "failed", "cancelled"}

\* C11, as claimed: every row's status is one of queued, needs_approval,
\* running, done, failed, cancelled.
StatusInSpecSet == \A i \in DOMAIN rows : rows[i].status \in SpecStatuses

\* C11, amended: every row's status is one of queued, needs_approval,
\* running, done, error, canceled, and every status a worker writes is one
\* of running, done, error, canceled.
StatusInCodeSet ==
    /\ [](\A i \in DOMAIN rows : rows[i].status \in CodeStatuses)
    /\ [][\A i \in DOMAIN rows :
            rows'[i].status # rows[i].status
               => rows'[i].status \in {"running", "done", "error", "canceled"}]_vars

\* one row was written error, another canceled
WroteErrorAndCanceled ==
    \E i, j \in DOMAIN rows : rows[i].status = "error" /\ rows[j].status = "canceled"

\* result, error and finished_at agree with the status (failed is written
\* error, cancelled is written canceled)
RowConsistent(r) ==
    /\ r.result # JNull => r.status = "done"
    /\ r.error # JNull => r.status \in {"error", "canceled"}
    /\ r.status = "done" => r.error = JNull
    /\ r.status \in Terminal => r.finished_at # JNull

\* C12: in every row result is set only on done, error only on error or
\* canceled, a done row has no error, and a terminal row has finished_at.
ResultErrorConsistent ==
    /\ \A i \in DOMAIN rows : RowConsistent(rows[i])
    /\ ex.row # <<>> => RowConsistent(ex.row)

\* a canceled row and a row in error, each with its message and its finished_at
TerminalRowsStamped ==
    \E i, j \in DOMAIN rows :
        /\ rows[i].status = "canceled" /\ rows[i].error = JStr(<<"Kill switch ON">>)
        /\ rows[j].status = "error" /\ rows[j].error = JStr(<<"invalid_signature">>)
        /\ rows[i].finished_at # JNull /\ rows[j].finished_at # JNull
        /\ rows[i].result = JNull /\ rows[j].result = JNull

\* the number of events of one of these types that name row i
EvCount(i, types) ==
    LET S == {e \in BagToSet(events) : e.command_id = IdOf(i) /\ e.type \in types}
        RECURSIVE Sum(_)
        Sum(T) == IF T = {} THEN 0
                  ELSE LET e == CHOOSE x \in T : TRUE
                       IN CopiesIn(e, events) + Sum(T \ {e})
    IN Sum(S)

\* the worker that claimed row i is still between its claim and the emit that follows
AtClaimEmit(i) ==
    \E w \in Workers : pc[w] = "getControls2" /\ cmd[w] # <<>> /\ cmd[w][1].id = IdOf(i)

\* C13, as claimed: every claimed row has exactly one command.started event
\* once its worker has passed the emit after the claim, and a row that is
\* done, failed or cancelled has exactly one event of the type of that
\* transition (command.failed is emitted as command.error; command.blocked
\* is taken for command.cancelled).
TransitionsDocumented ==
    \A i \in DOMAIN rows :
        /\ (rows[i].status \in {"running"} \cup Terminal /\ ~AtClaimEmit(i))
              => EvCount(i, {"command.started"}) = 1
        /\ rows[i].status = "done" => EvCount(i, {"command.done"}) = 1
        /\ rows[i].status = "error"
              => EvCount(i, {"command.failed", "command.error"}) = 1
        /\ rows[i].status = "canceled"
              => EvCount(i, {"command.cancelled", "command.blocked"}) = 1

\* where the for loop goes after the row a worker holds
AfterRow(w) == IF Tail(queued[w]) = <<>> THEN "upsertNode" ELSE "claim"

\* C14: at each emitEvent of the loop the step whose insert fails is
\* possible and takes the worker and the row where the step whose insert
\* succeeds takes them: to runCommand after command.started, past a row
\* written canceled or error after command.blocked and command.error, to
\* upsertNode after agent.boot and agent.kill_switch; and a status once
\* written is not undone.
BestEffortEvents ==
    /\ [](\A w \in Workers :
            /\ pc[w] = "getControls2"
                  => ENABLED (GetControls2(w) /\ pc'[w] = "runCommand" /\ events' = events)
            /\ pc[w] = "cancel"
                  => ENABLED (/\ Cancel(w)
                              /\ rows'[CmdKey(w)].status = "canceled"
                              /\ events' = events)
            /\ pc[w] = "finishErr"
                  => ENABLED (/\ Finish(w)
                              /\ rows'[CmdKey(w)].status = "error"
                              /\ events' = events)
            /\ pc[w] = "finishOk"
                  => ENABLED (/\ Finish(w)
                              /\ rows'[CmdKey(w)].status = "done"
                              /\ events' = events))
    /\ [][\A w \in Workers :
            Step(w) =>
               /\ (pc[w] = "getControls2" /\ ~cyc'[w][2].kill_switch)
                     => (pc'[w] = "runCommand" /\ rows' = rows)
               /\ (pc[w] \in {"cancel", "finishOk", "finishErr"} /\ rows' # rows)
                     => (pc'[w] = AfterRow(w) /\ rows'[CmdKey(w)].status \in Terminal)
               /\ pc[w] \in {"boot", "emitKillSwitch"}
                     => (pc'[w] = "upsertNode" /\ rows' = rows)]_vars
    /\ [][\A i \in DOMAIN rows :
            rows'[i].status # rows[i].status => rows[i].status \in {"queued", "running"}]_vars

\* a row went from queued to error and not one insert of its events succeeded
TransitionWithoutEvent ==
    \E i \in DOMAIN rows :
        /\ rows[i].status = "error"
        /\ EvCount(i, {"command.started", "command.error"}) = 0

\* C15, as claimed: claimQueued returns null only for a row that is no
\* longer queued.
NullClaimMeansTaken ==
    [][\A w \in Workers :
          (ClaimQueued(w) /\ cmd'[w] = <<>>)
             => rows[Head(queued[w])].status # "queued"]_vars

\* C15, amended: claimQueued returns null when the row is no longer queued
\* or when the update reports an error; the worker then writes no row, emits
\* no event, does not call runCommand, and goes on to the next listed row or,
\* after the last one, to the next iteration.
NullClaimSkipsRow ==
    [][\A w \in Workers :
          (ClaimQueued(w) /\ cmd'[w] = <<>>)
             => /\ rows[Head(queued[w])].status # "queued" \/ hist' = hist
                /\ rows' = rows
                /\ events' = events
                /\ hist'.runs = hist.runs
                /\ queued'[w] = Tail(queued[w])
                /\ pc'[w] = IF Tail(queued[w]) = <<>> THEN "upsertNode" ELSE "claim"]_vars

\* a worker lost the claim of the first of two listed rows and is at the
\* claim of the second
SkippedToNextRow ==
    \E w \in Workers, i \in DOMAIN rows :
        /\ w \in hist.tried[i] \ hist.got[i]
        /\ pc[w] = "claim"
        /\ cmd[w] = <<>>
        /\ Head(queued[w]) > i

\* C16, as claimed: a row that goes to running was queued and not on
\* approval hold at the moment of the claim update.
NoClaimOnHold ==
    [][\A i \in DOMAIN rows :
          (rows[i].status # "running" /\ rows'[i].status = "running")
             => (rows[i].status = "queued" /\ ~rows[i].needs_approval)]_vars

\* the command names of runCommand's switch
Vocabulary == {<<"ping">>, <<"status">>, <<"read_dir">>, <<"read_file_head">>}

\* C24: a claimed, correctly signed command whose name is outside the
\* vocabulary leaves running only for the failed status (error), with the
\* command_not_allowed message.
UnknownCommandNotAllowed ==
    [][\A i \in DOMAIN rows :
          (/\ i \in DOMAIN rows'
           /\ rows[i].command \notin Vocabulary
           /\ rows[i].signature = IssuerSign([command |-> rows[i].command,
                                              payload |-> rows[i].payload,
                                              signed |-> "fabric"], i)
           /\ rows[i].status = "running"
           /\ rows'[i].status \notin {"running", "canceled"})
          => /\ rows'[i].status = "error"
             /\ rows'[i].error = JStr(<<"command_not_allowed">>)]_vars

-----------------------------------------------------------------------------
(* Properties of verifyCommand *)

\* C4, as claimed: a signature accepted for an envelope is rejected for
\* every envelope that differs from it in exactly one field.
TamperDetected ==
    (sig.stage = "done" /\ sig.ok) => ~sig.ok2

-----------------------------------------------------------------------------
(* Properties of the sandboxed executor *)

TraversalMsg == JStr(<<"Ruta fuera de sandbox (blocked).">>)

\* the path argument the switch passes on: String(payload.path || ".") for
\* read_dir, String(payload.path || "") for read_file_head
ExRel ==
    LET p == JGet(Nullish(ex.row.payload, JObj(<<>>)), "path")
    IN IF ~Falsy(p) THEN p.v
       ELSE IF ex.row.command = <<"read_dir">> THEN <<".">> ELSE <<>>

ExRan == ex.stage \in {"ran", "finished"}

\* the root or beneath it, segment by segment
Beneath(segs) ==
    Len(segs) >= Len(sandboxRoot) /\ SubSeq(segs, 1, Len(sandboxRoot)) = sandboxRoot

ResolvesOutside(rel) ==
    ~Beneath(pathResolve(sandboxRoot, IF rel = <<>> THEN <<".">> ELSE rel))

\* a path string that is the root or continues it after a separator
InsideRoot(full) ==
    \/ full = PathStr(sandboxRoot)
    \/ startsWith(full, PathStr(sandboxRoot) \o <<"/">>)

HasDotDot(rel) ==
    LET segs == SplitSep(rel, <<>>, <<>>)
    IN \E i \in 1..Len(segs) : segs[i] = <<"..">>

IsAbsolute(rel) == rel # <<>> /\ Head(rel) = "/"

\* C17: every path handed to the filesystem by read_dir / read_file_head is
\* the sandbox root or lies beneath it across a separator; when the argument
\* resolves outside the root the guard throws, nothing is handed to the
\* filesystem, nothing is returned, and the finish writes status error.
SandboxConfined ==
    /\ ExRan =>
          /\ ex.out.fs # <<>> => InsideRoot(ex.out.fs)
          /\ ex.out.read # <<>> => InsideRoot(ex.out.read)
          /\ ResolvesOutside(ExRel) =>
                /\ ex.out.threw
                /\ ex.out.val = TraversalMsg
                /\ ex.out.fs = <<>>
                /\ ex.out.read = <<>>
    /\ (ex.stage = "finished" /\ ResolvesOutside(ExRel)) =>
          /\ ex.row.status = "error"
          /\ ex.row.result = JNull
          /\ ex.row.error = TraversalMsg

\* read_dir of ../../etc ended in error, and so did a sibling of the root
\* whose name begins with the root's name
TraversalBlocked ==
    /\ ex.stage = "finished"
    /\ ExRel \in {<<"..", "/", "..", "/", "etc">>, <<"..", "/", "sandbox", "x">>}
    /\ ex.row.command = <<"read_dir">>
    /\ ex.row.status = "error"
    /\ ex.row.error = TraversalMsg

\* C18, as claimed: every path argument with a .. segment, and every absolute
\* one, fails with the traversal error and nothing is handed to the filesystem.
DotDotOrAbsoluteRejected ==
    (ExRan /\ (HasDotDot(ExRel) \/ IsAbsolute(ExRel)))
       => (ex.out.threw /\ ex.out.val = TraversalMsg /\ ex.out.fs = <<>>)

\* C18, amended: a path argument with a .. segment, or an absolute one, fails
\* with the traversal error exactly when it resolves outside the root, and
\* then nothing is handed to the filesystem; when it resolves to the root or
\* beneath it, the resolved path is handed to the filesystem.  The flags of
\* the controls record play no part.
DotDotOrAbsoluteRejectedIfOutside ==
    (ExRan /\ (HasDotDot(ExRel) \/ IsAbsolute(ExRel)))
       => /\ (ex.out.threw /\ ex.out.val = TraversalMsg) <=> ResolvesOutside(ExRel)
          /\ ResolvesOutside(ExRel) => ex.out.fs = <<>>
          /\ ~ResolvesOutside(ExRel) =>
                ex.out.fs = PathStr(pathResolve(sandboxRoot, ExRel))

\* read_file_head of a/../f returned the head of f, with allow_write off
DotDotInsideAccepted ==
    /\ ex.stage = "finished"
    /\ ExRel = <<"a", "/", "..", "/", "f">>
    /\ ex.row.command = <<"read_file_head">>
    /\ ~controls.allow_write
    /\ ~ex.out.threw
    /\ ex.out.read = PathStr(Append(sandboxRoot, <<"f">>))
    /\ ex.row.status = "done"

\* C19, as claimed: the head returned for a requested maxBytes is at most
\* min(maxBytes, FILE_HEAD_BYTES, file size) bytes long, and never longer
\* than FILE_HEAD_BYTES.
HeadWithinMin ==
    LET mb == JGet(Nullish(ex.row.payload, JObj(<<>>)), "maxBytes")
        bytes == JGet(ex.out.val, "bytes")
    IN (ExRan /\ ex.row.command = <<"read_file_head">> /\ ~ex.out.threw)
          => /\ bytes.v <= FILE_HEAD_BYTES
             /\ (mb.t = "num" /\ mb.v > 0)
                   => bytes.v <= Min(mb.v, Min(FILE_HEAD_BYTES, ex.size))

-----------------------------------------------------------------------------
(* Properties of the Cloud Run worker *)

\* the row is a shell.exec whose payload.cmd is not a member of the allowlist
NotAllowlisted ==
    /\ cr.pc # "idle"
    /\ cr.row.command = <<"shell.exec">>
    /\ StrOf(cr.row.payload, "cmd") \notin allowlist

\* C20: in the Cloud Run worker a shell.exec whose payload.cmd is not an
\* exact member of the allowlist spawns no subprocess: handleCommand throws
\* without a spawn, whatever allow_shell is; the row is never succeeded and
\* has no result, and the update that finishes it writes failed.  No
\* subprocess is ever spawned for a command outside the allowlist.
ShellAllowlistGate ==
    /\ [](cr.pc # "idle" => \A s \in cr.spawned : s.cmd \in allowlist)
    /\ [](NotAllowlisted
            => /\ cr.spawned = {}
               /\ cr.out.spawn = <<>>
               /\ cr.row.status \in {"queued", "running", "failed"}
               /\ cr.row.result = JNull)
    /\ [][(NotAllowlisted /\ CrHandle) => cr'.out.threw /\ cr'.out.spawn = <<>>]_vars
    /\ [][(NotAllowlisted /\ CrFinish /\ cr'.row # cr.row)
            => cr'.row.status = "failed" /\ cr'.row.error = cr.out.val]_vars

\* C20 witness: rm against the allowlist ls,whoami with allow_shell read as
\* true: the row is failed with the allowlist message and nothing was spawned
ShellBlockedWithFlagOn ==
    /\ NotAllowlisted
    /\ StrOf(cr.row.payload, "cmd") = <<"rm">>
    /\ allowlist = {<<"ls">>, <<"whoami">>}
    /\ cr.flags.allowShell
    /\ cr.row.status = "failed"
    /\ cr.row.error = JStr(<<"Shell bloqueado: ", "rm", " (no esta en allowlist)">>)
    /\ cr.spawned = {}

\* C21: a shell.exec whose process is still running when SHELL_TIMEOUT_MS
\* elapses is killed, and the update that finishes its row writes failed,
\* never a success status.
TimeoutEndsFailed ==
    [][(CrFinish /\ cr.out.killed /\ cr'.row # cr.row)
         => cr'.row.status = "failed"]_vars

\* the four commands behind a capability flag
CrGated == {<<"fs.list">>, <<"fs.read">>, <<"fs.write">>, <<"shell.exec">>}

\* C23 as stated: with the controls record absent or unreadable, fs.list,
\* fs.read, fs.write and shell.exec all throw without a filesystem call or
\* a spawn.
AbsentControlsDisableAll ==
    [][(CrHandle /\ cr.data = <<>> /\ cr.cmd[1].command \in CrGated)
         => cr'.out.threw /\ cr'.out.fs = <<>> /\ cr'.out.spawn = <<>>]_vars

\* C23 amended: with the controls record absent or unreadable the kill
\* switch is off, shell is disabled and the filesystem is enabled: shell.exec
\* throws the disabled-shell error without a spawn, and the fs commands are
\* not blocked by the flag.
AbsentControlsDisableShell ==
    /\ [](cr.pc # "idle" /\ cr.data = <<>>
            => ~cr.flags.kill /\ ~cr.flags.allowShell /\ cr.flags.allowFs)
    /\ [][(CrHandle /\ cr.data = <<>> /\ cr.cmd[1].command = <<"shell.exec">>)
            => /\ cr'.out = CrThrown(<<"Shell deshabilitado por system_controls">>)
               /\ cr'.spawned = cr.spawned]_vars
    /\ [][(CrHandle /\ cr.data = <<>> /\ cr.cmd[1].command \in CrGated \ {<<"shell.exec">>})
            => cr'.out.val # JStr(<<"FS deshabilitado por system_controls">>)]_vars

\* C23 witness: no controls record, and an fs.read has read a file
AbsentControlsFsRead ==
    /\ cr.pc = "finish"
    /\ cr.controls = <<>>
    /\ cr.data = <<>>
    /\ cr.cmd[1].command = <<"fs.read">>
    /\ ~cr.out.threw
    /\ cr.out.fs # <<>>

-----------------------------------------------------------------------------
(* Properties of the loopOnce worker that cancels by kill switch *)

\* C29: cancelByKillswitch never sets a row to cancelled that is running or
\* in a terminal status, and a cancelled row is never set to done or failed
\* afterwards.
CancelSparesClaimed ==
    [][lw # LwIdle =>
         \A i \in CmdIds :
            /\ (lw.rows[i].status \in {"running", "done", "failed"})
                  => lw'.rows[i].status # "cancelled"
            /\ (lw.rows[i].status = "cancelled") => lw'.rows[i].status = "cancelled"]_vars

\* C30: a row leaves queued only for running, a row reaches a terminal
\* status only while a worker holds its claim, and while kill_switch is true
\* no queued row is changed.
TerminalOnlyAfterClaim ==
    [][lw # LwIdle =>
         \A i \in CmdIds :
            /\ (lw.rows[i].status = "queued")
                  => lw'.rows[i].status \in {"queued", "running"}
            /\ (lw'.rows[i].status \in {"done", "failed", "cancelled"}
                   /\ lw'.rows[i].status # lw.rows[i].status)
                  => lw.claims[i] # {}
            /\ (lw.kill_switch /\ lw.rows[i].status = "queued")
                  => lw'.rows[i] = lw.rows[i]]_vars

-----------------------------------------------------------------------------
(* Properties of the interval-driven worker *)

\* C27: with two workers of the same project and node polling one queue, no
\* command is passed to executeLocalCommand by more than one worker.
NoDoubleExecAcrossWorkers ==
    pw # PwIdle =>
       \A i \in CmdIds : Cardinality({v[1] : v \in pw.ran[i]}) <= 1

\* C28: within one process poll cycles never overlap: at most one of its
\* pollCommands invocations is past its start, and no command is executed
\* by two invocations of one process.
PollCyclesNeverOverlap ==
    pw # PwIdle =>
       \A w \in Workers :
          /\ Cardinality({k \in PollSlots : pw.inv[<<w, k>>].pc # "idle"}) <= 1
          /\ \A i \in CmdIds : Cardinality({v \in pw.ran[i] : v[1] = w}) <= 1

-----------------------------------------------------------------------------
(* Properties of the Fabric worker *)

-----------------------------------------------------------------------------
(* The loop of index.ts under fair scheduling *)

\* Every await of the loop eventually settles: a worker whose next step
\* is possible eventually takes it.
LoopFairness == \A w \in Workers : WF_vars(Step(w))

LiveSpec == EvInit /\ [][EvNext]_vars /\ LoopFairness

\* C25: the loop never terminates and never gets stuck: a worker past its
\* boot event is always at one of the labels of the while body, a step
\* that leaves the body through the catch block (upsertNode, the listing
\* or a finishing update failed) lands on the first statement of the body,
\* and from every state every worker eventually starts a next poll cycle.
NextCycleAlwaysStarts ==
    /\ [](\A w \in Workers : ENABLED Step(w))
    /\ [][\A w \in Workers :
            (pc'[w] # pc[w] /\ cmd[w] # <<>> /\ cmd'[w] = <<>> /\ queued[w] # <<>>
                /\ queued'[w] = <<>>)
              => pc'[w] = "upsertNode"]_vars
    /\ \A w \in Workers : []<>(pc[w] = "upsertNode")

\* C25 witness: a finishing update failed (the row a worker won is still
\* running with nobody working on it) and every worker is back at the
\* start of a poll cycle
RestartedAfterFailedUpdate ==
    \E i \in DOMAIN rows :
       /\ rows[i].status = "running"
       /\ hist.runs[i] > 0
       /\ \A w \in Workers : pc[w] = "upsertNode" /\ cmd[w] = <<>>


-----------------------------------------------------------------------------
(* canonicalJson on its own: two payloads are drawn, and both are          *)
(* canonicalised.                                                          *)

CjFlat ==
    { JObj(<<>>), JObj(<<KV("a", JNum(1))>>),
      JObj(<<KV("a", JNum(1)), KV("b", JNum(2))>>),
      JObj(<<KV("b", JNum(2)), KV("a", JNum(1))>>),
      JObj(<<KV("a", JNum(2)), KV("b", JNum(1))>>),
      JArr(<<>>), JArr(<<JNum(1), JNum(2)>>), JArr(<<JNum(2), JNum(1)>>) }

CjInner ==
    { JStr(<<"x">>), JNull,
      JObj(<<KV("a", JNum(1)), KV("b", JNum(2))>>),
      JObj(<<KV("b", JNum(2)), KV("a", JNum(1))>>) }

CjNested ==
    {JObj(<<KV("args", x), KV("cmd", y)>>) : x \in CjFlat, y \in CjInner}
    \cup {JObj(<<KV("cmd", y), KV("args", x)>>) : x \in CjFlat, y \in CjInner}
    \cup {JArr(<<x, y>>) : x \in CjInner, y \in CjInner}
    \cup {JObj(<<KV("path", JArr(<<x>>))>>) : x \in CjInner}

CjPayloads == {JUndefined, JNull} \cup CjFlat \cup CjNested

\* p and q are the same value but for the order in which objects list
\* their keys
RECURSIVE SameUpToKeyOrder(_, _)
SameUpToKeyOrder(p, q) ==
    IF p.t # q.t THEN FALSE
    ELSE CASE p.t = "obj" ->
                 /\ Keys(p) = Keys(q)
                 /\ Len(p.kv) = Len(q.kv)
                 /\ \A k \in Keys(p) : SameUpToKeyOrder(JGet(p, k), JGet(q, k))
           [] p.t = "arr" ->
                 /\ Len(p.el) = Len(q.el)
                 /\ \A i \in 1..Len(p.el) : SameUpToKeyOrder(p.el[i], q.el[i])
           [] OTHER -> p = q

CjInit ==
    /\ Idle
    /\ sig = NoSig
    /\ ex = ExIdle
    /\ cr = CrIdle
    /\ lw = LwIdle
    /\ bl = BlIdle
    /\ pw = PwIdle
    /\ fw = FwIdle
    /\ pg = PgIdle
    /\ rd = RdIdle
    /\ \E p \in CjPayloads :
          cj = [stage |-> "new", p |-> p, q |-> p, cp |-> <<>>, cq |-> <<>>]

CjOthers == <<core, sig, ex, cr, lw, pw, fw, pg, rd, bl>>

CjPair ==
    /\ cj.stage = "new"
    /\ \E q \in CjPayloads : cj' = [cj EXCEPT !.stage = "pair", !.q = q]
    /\ UNCHANGED CjOthers

CjCanonicalize ==
    /\ cj.stage = "pair"
    /\ cj' = [cj EXCEPT !.stage = "done", !.cp = canonicalJson(cj.p),
                        !.cq = canonicalJson(cj.q)]
    /\ UNCHANGED CjOthers

CjNext == CjPair \/ CjCanonicalize

CanonSpec == CjInit /\ [][CjNext]_vars

-----------------------------------------------------------------------------
(* Properties of canonicalJson *)

\* C26: two payloads that are the same value but for the order of the
\* keys of their objects, at any depth, have the same canonical text; on
\* these payloads nothing else has: a different value, or the elements of
\* an array in a different order, gives a different text; and null and
\* undefined are written as the empty object.
CanonicalJsonKeyOrder ==
    (cj # CjIdle /\ cj.stage = "done") =>
       /\ SameUpToKeyOrder(Nullish(cj.p, JObj(<<>>)), Nullish(cj.q, JObj(<<>>)))
             <=> cj.cp = cj.cq
       /\ cj.p \in {JNull, JUndefined} => cj.cp = <<"{", "}">>
       /\ cj.p = JArr(<<JNum(2), JNum(1)>>) => cj.cp = <<"[", "2", ",", "1", "]">>

\* C26 witness: two payloads whose nested objects list their keys in a
\* different order were canonicalised to the same text
NestedKeyOrderCanonicalised ==
    /\ cj # CjIdle
    /\ cj.stage = "done"
    /\ cj.p.t = "obj" /\ cj.q.t = "obj"
    /\ Keys(cj.p) = Keys(cj.q)
    /\ \E k \in Keys(cj.p) : JGet(cj.p, k).t = "obj" /\ JGet(cj.p, k) # JGet(cj.q, k)
    /\ cj.cp = cj.cq

-----------------------------------------------------------------------------
(* Properties of the kill switch read after the claim *)

\* C31, as claimed: when the controls read that follows a successful claim
\* returns kill_switch = true, the worker goes to cancel the row, the row
\* is then canceled with the kill switch reason, runCommand is not called
\* for it, and the worker goes on with the next listed row (or, after the
\* last one, with the sleep that ends the cycle).
KillSwitchAfterClaimCancels ==
    /\ [][\A w \in Workers :
            (pc[w] = "getControls2" /\ pc'[w] # pc[w] /\ killSwitchOn(cyc'[w][2]))
               => pc'[w] = "cancel"]_vars
    /\ [][\A w \in Workers :
            (pc[w] = "cancel" /\ pc'[w] # pc[w])
               => /\ rows'[CmdKey(w)].status = "canceled"
                  /\ rows'[CmdKey(w)].error = JStr(<<"Kill switch ON">>)
                  /\ hist'.runs = hist.runs
                  /\ queued'[w] = Tail(queued[w])]_vars

-----------------------------------------------------------------------------
(* Properties of the Cloud Run worker's flags at dispatch *)

\* C32, as claimed: in a cycle whose flag read returned the controls
\* record, when handleCommand runs a shell.exec command while the record
\* says by then that allow_shell is not enabled, or an fs command while it
\* says allow_filesystem = false, the command is rejected: handleCommand
\* throws, no process is spawned and no file is touched.
FlagsHeldAtDispatch ==
    /\ [][(/\ CrHandle
           /\ cr.data # <<>>
           /\ cr.cmd[1].command = <<"shell.exec">>
           /\ ~systemFlags(cr.controls).allowShell)
            => /\ cr'.out.threw
               /\ cr'.out.spawn = <<>>
               /\ cr'.spawned = cr.spawned]_vars
    /\ [][(/\ CrHandle
           /\ cr.data # <<>>
           /\ cr.cmd[1].command \in {<<"fs.list">>, <<"fs.read">>, <<"fs.write">>}
           /\ ~systemFlags(cr.controls).allowFs)
            => /\ cr'.out.threw
               /\ cr'.out.fs = <<>>
               /\ cr'.files = cr.files]_vars

-----------------------------------------------------------------------------
(* Properties of executeLocalCommand as pollCommands drives it *)

\* C33, as claimed: executeLocalCommand starts a subprocess for a
\* shell.exec command only if the project's allow_shell flag is enabled
\* (and the leading word of the script is allowlisted); otherwise no
\* subprocess is started and the result is a failure.
ShellExecNeedsAllowShell ==
    [][\A v \in PollInv :
          (pw.inv[v].pc = "execute" /\ pw'.inv[v].pc = "report"
              /\ pw.inv[v].batch[1].row.command = <<"shell.exec">>
              /\ ~controls.allow_shell)
            => /\ ~pw'.inv[v].res[1].ok
               /\ \A f \in pw'.inv[v].res[1].fx : f.op # "exec"]_vars

\* C34, as claimed: a file that executeLocalCommand writes lies at or
\* beneath the configured sandbox root; an fs.write whose path is absolute
\* or resolves outside the root fails and writes nothing.
WriteStaysBeneathRoot ==
    /\ \A f \in pw.fx : f.op = "writeFile" => Beneath(pathResolve(PwCwd, f.arg))
    /\ \A v \in PollInv :
          (/\ pw.inv[v].pc = "report"
           /\ pw.inv[v].batch[1].row.command = <<"fs.write">>
           /\ ~Falsy(JGet(pw.inv[v].batch[1].row.payload, "path"))
           /\ ~Beneath(pathResolve(PwCwd, JGet(pw.inv[v].batch[1].row.payload, "path").v)))
            => ~pw.inv[v].res[1].ok

-----------------------------------------------------------------------------
(* safeJoin (unnamed/part_001) and safeResolve (unnamed/part_000) on their *)
(* own: a path is drawn and each guard is applied to it.  Both workers     *)
(* default their root to /tmp/hocker-sandbox.                              *)

\* safeResolve: [threw, full]
safeResolve(userPath) ==
    LET clean == StripLeadingDotDot(userPath)
        target == PathStr(pathResolve(SANDBOX, clean))
        root == PathStr(SANDBOX)
    IN [threw |-> ~startsWith(target, root), full |-> target]

PgPrefixes ==
    { <<>>, <<"/">>, <<".", "/">>, <<"..", "/">>, <<"..", "/", "..", "/">>,
      <<"a", "/", "..", "/">>, <<"a", "/", "..", "/", "..", "/">> }

PgSuffixes ==
    { <<>>, <<"f">>, <<"a", "/", "b">>, <<"etc", "/", "passwd">>,
      <<"hocker-sandbox", "x", "/", "f">>,
      <<"tmp", "/", "hocker-sandbox", "x", "/", "f">> }

PgPaths == {a \o b : a \in PgPrefixes, b \in PgSuffixes}

PgInit ==
    /\ Idle
    /\ sig = NoSig
    /\ ex = ExIdle
    /\ cr = CrIdle
    /\ lw = LwIdle
    /\ bl = BlIdle
    /\ pw = PwIdle
    /\ fw = FwIdle
    /\ cj = CjIdle
    /\ rd = RdIdle
    /\ \E rel \in PgPaths : pg = [rel |-> rel, j |-> <<>>, r |-> <<>>]

PgOthers == <<core, sig, ex, cr, lw, pw, fw, cj, rd, bl>>

PgSafeJoin ==
    /\ pg.j = <<>>
    /\ pg' = [pg EXCEPT !.j = <<safeJoin(pg.rel)>>]
    /\ UNCHANGED PgOthers

PgSafeResolve ==
    /\ pg.r = <<>>
    /\ pg' = [pg EXCEPT !.r = <<safeResolve(pg.rel)>>]
    /\ UNCHANGED PgOthers

PgNext == PgSafeJoin \/ PgSafeResolve

GuardSpec == PgInit /\ [][PgNext]_vars

-----------------------------------------------------------------------------
(* Properties of safeJoin and safeResolve *)

\* the root, or a path that continues it after a separator
AtOrBeneathSandbox(full) ==
    \/ full = PathStr(SANDBOX)
    \/ startsWith(full, PathStr(SANDBOX) \o <<"/">>)

\* C35, as claimed: a path that safeJoin or safeResolve returns is the
\* sandbox root or lies beneath it with a separator after the root; none
\* lies in a directory beside the root whose name begins with the root's.
GuardsKeepSeparatorBoundary ==
    pg # PgIdle =>
       /\ (pg.j # <<>> /\ ~pg.j[1].threw) => AtOrBeneathSandbox(pg.j[1].full)
       /\ (pg.r # <<>> /\ ~pg.r[1].threw) => AtOrBeneathSandbox(pg.r[1].full)

-----------------------------------------------------------------------------
(* The readers of unnamed/part_002 (resolveSafe, readDirSafe,              *)
(* readFileHeadSafe) on their own.  The disk holds the root /srv with the  *)
(* directory docs and two files in it, three symbolic links in the root    *)
(* (link -> /etc, in -> /srv/docs, out -> /etc), and /etc with two files.  *)
(* Another process may replace the directory /srv/docs by a symbolic link  *)
(* to /etc at any moment.  File names are token sequences whose last       *)
(* token is the extension.                                                 *)

RdRoot == << <<"srv">> >>
RdEtc == << <<"etc">> >>
RdDocs == Append(RdRoot, <<"docs">>)
RdLinks0 ==
    (Append(RdRoot, <<"link">>) :> RdEtc)
    @@ (Append(RdRoot, <<"in">>) :> RdDocs)
    @@ (Append(RdRoot, <<"out">>) :> RdEtc)

RdDirs(links) ==
    {<<>>, RdRoot, RdEtc} \cup (IF RdDocs \in DOMAIN links THEN {} ELSE {RdDocs})

RdFiles(links) ==
    {Append(RdEtc, <<"a", ".txt">>), Append(RdEtc, <<"passwd", ".txt">>)}
    \cup (IF RdDocs \in DOMAIN links THEN {}
          ELSE {Append(RdDocs, <<"a", ".txt">>), Append(RdDocs, <<"b", ".bin">>)})

\* the size of a file: rd.size for docs/a.txt, three bytes for the others
RdSizeOf(real, size) == IF real = Append(RdDocs, <<"a", ".txt">>) THEN size ELSE 3

\* fs.realpath: every component that is a symbolic link is followed
RECURSIVE realpath(_, _, _)
realpath(segs, acc, links) ==
    IF segs = <<>> THEN acc
    ELSE LET nxt == Append(acc, Head(segs))
         IN IF nxt \in DOMAIN links
            THEN realpath(Tail(segs), realpath(links[nxt], <<>>, links), links)
            ELSE realpath(Tail(segs), nxt, links)

\* fs.lstat: the links of the parent are followed, the last component is not
lstat(candidate, links) ==
    LET phys == IF candidate = <<>> THEN <<>>
                ELSE Append(realpath(SubSeq(candidate, 1, Len(candidate) - 1), <<>>, links),
                            candidate[Len(candidate)])
    IN CASE phys \in DOMAIN links -> "symlink"
         [] phys \in RdDirs(links) -> "dir"
         [] phys \in RdFiles(links) -> "file"
         [] OTHER -> "enoent"

\* resolveSafe: [threw, msg, targetReal, kind]
resolveSafe(userPath, links) ==
    LET rootAbs == RdRoot
        candidate == pathResolve(rootAbs, IF userPath = <<>> THEN <<".">> ELSE userPath)
        rootReal == realpath(rootAbs, <<>>, links)
        kind == lstat(candidate, links)
        targetReal == realpath(candidate, <<>>, links)
        fail(m) == [threw |-> TRUE, msg |-> m, targetReal |-> targetReal, kind |-> kind]
    IN IF kind = "enoent" THEN fail(<<"ENOENT">>)
       ELSE IF kind = "symlink" THEN fail(<<"Symlink bloqueado">>)
       ELSE IF ~(\/ targetReal = rootReal
                 \/ startsWith(PathStr(targetReal), PathStr(rootReal) \o <<"/">>))
            THEN fail(<<"Path fuera de ROOT">>)
       ELSE [threw |-> FALSE, msg |-> <<>>, targetReal |-> targetReal, kind |-> kind]

\* path.extname of the last component, against ALLOWED_EXTS
extAllowed(filePath) ==
    /\ filePath # <<>>
    /\ LET name == filePath[Len(filePath)]
       IN Len(name) >= 2 /\ name[Len(name)] \in {".txt", ".md", ".json"}

Min2(a, b) == IF a < b THEN a ELSE b
Max2(a, b) == IF a > b THEN a ELSE b

\* the `end` option of the stream of readFileHeadSafe, the last byte asked
\* for (inclusive): cap > 0 ? cap - 1 : 0
streamEnd(cap) == IF cap > 0 THEN cap - 1 ELSE 0

RdPaths ==
    { <<".">>, <<"docs">>, <<"docs", "/", "a", ".txt">>, <<"docs", "/", "b", ".bin">>,
      <<"link">>, <<"in">>, <<"in", "/", "a", ".txt">>, <<"out", "/", "passwd", ".txt">>,
      <<"..", "/", "etc", "/", "passwd", ".txt">>, <<"nope">> }
RdMaxBytes == {0, 1, 2, 5}
RdCaps == {0, 2, 4}
RdSizes == {0, 1, 3}

RdInit ==
    /\ Idle
    /\ sig = NoSig
    /\ ex = ExIdle
    /\ cr = CrIdle
    /\ lw = LwIdle
    /\ bl = BlIdle
    /\ pw = PwIdle
    /\ fw = FwIdle
    /\ cj = CjIdle
    /\ pg = PgIdle
    /\ \E c \in {"read_dir", "read_file_head"}, p \in RdPaths, n \in RdMaxBytes,
          m \in RdCaps, s \in RdSizes :
          rd = [links |-> RdLinks0, command |-> c, path |-> p, maxBytes |-> n,
                MAX_FILE_BYTES |-> m, size |-> s, stage |-> "new", res |-> <<>>,
                viaLink |-> FALSE, cap |-> 0, read |-> <<>>, threw |-> <<>>]

RdOthers == <<core, sig, ex, cr, lw, pw, fw, cj, pg, bl>>

\* resolveSafe and the tests that follow it in readDirSafe or in
\* readFileHeadSafe, up to the call that reads
RdResolveSafe ==
    /\ rd.stage = "new"
    /\ LET r == resolveSafe(rd.path, rd.links)
           candidate == pathResolve(RdRoot, rd.path)
           size == RdSizeOf(r.targetReal, rd.size)
           msg == IF r.threw THEN r.msg
                  ELSE IF rd.command = "read_dir"
                  THEN IF r.kind # "dir" THEN <<"No es directorio">> ELSE <<>>
                  ELSE IF r.kind # "file" THEN <<"No es archivo">>
                  ELSE IF ~extAllowed(r.targetReal) THEN <<"Extension no permitida">>
                  ELSE <<>>
       IN rd' = [rd EXCEPT !.stage = IF msg = <<>> THEN "resolved" ELSE "done",
                           !.res = <<r>>,
                           !.viaLink = realpath(candidate, <<>>, rd.links) # candidate,
                           !.cap = Min2(Min2(Max2(0, rd.maxBytes), rd.MAX_FILE_BYTES), size),
                           !.threw = IF msg = <<>> THEN <<>> ELSE <<msg>>]
    /\ UNCHANGED RdOthers

\* fs.readdir(targetReal) or createReadStream(targetReal, {start, end}): the
\* path is resolved again by the system, with the links there are by now
RdRead ==
    /\ rd.stage = "resolved"
    /\ LET real == realpath(rd.res[1].targetReal, <<>>, rd.links)
           there == IF rd.command = "read_dir" THEN real \in RdDirs(rd.links)
                    ELSE real \in RdFiles(rd.links)
           bytes == IF rd.command = "read_dir" THEN 0
                    ELSE Min2(streamEnd(rd.cap) + 1, RdSizeOf(real, rd.size))
       IN rd' = [rd EXCEPT !.stage = "done",
                           !.read = IF there THEN <<[real |-> real, bytes |-> bytes]>>
                                    ELSE <<>>,
                           !.threw = IF there THEN <<>> ELSE <<<<"ENOENT">>>>]
    /\ UNCHANGED RdOthers

\* another process replaces the directory docs by a symbolic link to /etc
RdSwap ==
    /\ rd.stage # "done"
    /\ RdDocs \notin DOMAIN rd.links
    /\ rd' = [rd EXCEPT !.links = (RdDocs :> RdEtc) @@ rd.links]
    /\ UNCHANGED RdOthers

RdNext == RdResolveSafe \/ RdRead \/ RdSwap

ReaderSpec == RdInit /\ [][RdNext]_vars

-----------------------------------------------------------------------------
(* Properties of the readers of unnamed/part_002 *)

\* C36, as claimed: a request whose path has a symbolic link among its
\* components is rejected, and what is listed or read has, at the time of
\* the read, a real path that is the real root or beneath it, also when a
\* component is replaced by a symbolic link after resolveSafe's check.
LinksRejectedAndReadsInsideRoot ==
    rd # RdIdle =>
       /\ (rd.res # <<>> /\ rd.viaLink) => rd.threw # <<>>
       /\ \A i \in 1..Len(rd.read) :
             /\ Len(rd.read[i].real) >= Len(RdRoot)
             /\ SubSeq(rd.read[i].real, 1, Len(RdRoot)) = RdRoot

\* C37, as claimed: the number of bytes readFileHeadSafe reads is at most
\* min(maxBytes, MAX_FILE_BYTES, file size); with maxBytes = 0 it is 0.
HeadAtMostMin ==
    (rd # RdIdle /\ rd.command = "read_file_head") =>
       \A i \in 1..Len(rd.read) :
          /\ rd.read[i].bytes <= rd.maxBytes
          /\ rd.read[i].bytes <= rd.MAX_FILE_BYTES
          /\ rd.read[i].bytes <= RdSizeOf(rd.read[i].real, rd.size)

-----------------------------------------------------------------------------
(* Properties of the row that runCommand verifies and executes *)

-----------------------------------------------------------------------------
(* signCommandFabric and signCommandV2 on envelopes whose fields may hold  *)
(* the separator: two envelopes are drawn and both are signed.             *)

PipeIds == {<<"a">>, <<"a", "|", "b">>}
PipeProjects == {<<"c">>, <<"b", "|", "c">>}
PipeCommands == {<<"ping">>, <<"ping", "|", "x">>}
PipeCreated == {<<"t", "1">>, <<"x", "|", "t", "1">>}
PipeEnvelopes ==
    [id : PipeIds, project_id : PipeProjects, node_id : {NODE_ID}, command : PipeCommands,
     payload : {JObj(<<>>)}, created_at : PipeCreated]

PipeInit ==
    /\ Idle
    /\ ex = ExIdle
    /\ cr = CrIdle
    /\ VariantsIdle
    /\ \E e \in PipeEnvelopes, e2 \in PipeEnvelopes :
          sig = [stage |-> "pipe", env |-> e, env2 |-> e2, fabric |-> <<>>, v2 |-> <<>>]

PipeSignFabric ==
    /\ sig.fabric = <<>>
    /\ sig' = [sig EXCEPT !.fabric = <<SignWith("fabric", COMMAND_HMAC_SECRET, sig.env),
                                       SignWith("fabric", COMMAND_HMAC_SECRET, sig.env2)>>]
    /\ UNCHANGED <<core, ex, cr, variants>>

PipeSignV2 ==
    /\ sig.v2 = <<>>
    /\ sig' = [sig EXCEPT !.v2 = <<SignWith("v2", COMMAND_HMAC_SECRET, sig.env),
                                   SignWith("v2", COMMAND_HMAC_SECRET, sig.env2)>>]
    /\ UNCHANGED <<core, ex, cr, variants>>

PipeNext == PipeSignFabric \/ PipeSignV2

PipeSpec == PipeInit /\ [][PipeNext]_vars

-----------------------------------------------------------------------------
(* Properties of the signing input *)

\* C39, as claimed: two envelopes that differ in id, project_id, node_id,
\* command, created_at or canonical payload never have the same signing
\* input, under signCommandFabric or under signCommandV2, also when
\* their fields hold the separator.
SigningInputDeterminesEnvelope ==
    (/\ sig # NoSig
     /\ sig.stage = "pipe"
     /\ \/ sig.env.id # sig.env2.id
        \/ sig.env.project_id # sig.env2.project_id
        \/ sig.env.node_id # sig.env2.node_id
        \/ sig.env.command # sig.env2.command
        \/ sig.env.created_at # sig.env2.created_at
        \/ canonicalJson(sig.env.payload) # canonicalJson(sig.env2.payload))
      => /\ sig.fabric # <<>> => sig.fabric[1].msg # sig.fabric[2].msg
         /\ sig.v2 # <<>> => sig.v2[1].msg # sig.v2[2].msg

-----------------------------------------------------------------------------
(* One index.ts worker with a backlog longer than the limit of its         *)
(* listing.  Every backend call succeeds and the kill switch is off.  The  *)
(* table has BacklogSlots places for rows; the issuer keeps creating rows, *)
(* a new row taking the place of a row that is in a terminal status, and   *)
(* bl.order lists the queued rows by created_at, oldest first; bl.last is  *)
(* the place of the newest row.                                            *)

BacklogSlots == 1..(ListLimit + 1)

\* a listing that keeps the n newest rows
listNewest(order, n) == SubSeq(order, Len(order) - Min(n, Len(order)) + 1, Len(order))

\* .order("created_at", { ascending: true }).limit(n)
listOldest(order, n) == SubSeq(order, 1, Min(n, Len(order)))

BlStatus(i) == IF i \in DOMAIN bl.rows THEN bl.rows[i].status ELSE "none"

BlInit ==
    /\ Idle
    /\ sig = NoSig
    /\ ex = ExIdle
    /\ cr = CrIdle
    /\ lw = LwIdle
    /\ pw = PwIdle
    /\ fw = FwIdle
    /\ cj = CjIdle
    /\ pg = PgIdle
    /\ rd = RdIdle
    /\ bl = [rows |-> <<>>, order |-> <<>>, pc |-> "upsertNode", queued |-> <<>>,
             cmd |-> <<>>, out |-> NoOut, waited |-> {}, last |-> 0]

BlOthers == <<core, sig, ex, cr, lw, pw, fw, cj, pg, rd>>

\* upsertNode, then getControls with the kill switch off
BlUpsertNode ==
    /\ bl.pc = "upsertNode"
    /\ bl' = [bl EXCEPT !.pc = "fetchQueued"]
    /\ UNCHANGED BlOthers

BlFetchQueued ==
    /\ bl.pc = "fetchQueued"
    /\ LET of == SelectSeq(bl.order, LAMBDA i : fetchFilter(bl.rows[i]))
           listed == listOldest(of, ListLimit)
       IN bl' = [bl EXCEPT !.queued = listed,
                           !.pc = IF listed = <<>> THEN "upsertNode" ELSE "claim",
                           !.waited = @ \cup ({of[j] : j \in 1..Len(of)}
                                               \ {listed[j] : j \in 1..Len(listed)})]
    /\ UNCHANGED BlOthers

\* `continue` and the end of the for body
BlForNext(b) ==
    [b EXCEPT !.queued = Tail(b.queued), !.cmd = <<>>, !.out = NoOut,
              !.pc = IF Tail(b.queued) = <<>> THEN "upsertNode" ELSE "claim"]

\* claimQueued, then the controls read after the claim and command.started
BlClaimQueued ==
    /\ bl.pc = "claim"
    /\ LET i == Head(bl.queued)
       IN IF claimFilter(bl.rows[i], i)
          THEN bl' = [bl EXCEPT !.rows[i] = claimUpdate(@),
                                !.order = SelectSeq(@, LAMBDA j : j # i),
                                !.cmd = <<claimUpdate(bl.rows[i])>>,
                                !.pc = "runCommand"]
          ELSE bl' = BlForNext(bl)
    /\ UNCHANGED BlOthers

BlRunCommand ==
    /\ bl.pc = "runCommand"
    /\ bl' = [bl EXCEPT !.out = runCommand(bl.cmd[1]), !.pc = "finish"]
    /\ UNCHANGED BlOthers

\* finishOk after a return, finishErr after a throw
BlFinish ==
    /\ bl.pc = "finish"
    /\ LET i == CHOOSE j \in BacklogSlots : IdOf(j) = bl.cmd[1].id
           done == IF bl.out.threw THEN finishErrUpdate(bl.rows[i], bl.out.val)
                   ELSE finishOkUpdate(bl.rows[i], bl.out.val)
       IN bl' = BlForNext([bl EXCEPT !.rows[i] = done])
    /\ UNCHANGED BlOthers

BlStep == BlUpsertNode \/ BlFetchQueued \/ BlClaimQueued \/ BlRunCommand \/ BlFinish

\* the places of the table, from the one after the newest row's, cyclically
BlPlaces == [j \in BacklogSlots |-> ((bl.last + j - 1) % (ListLimit + 1)) + 1]

\* the issuer creates a row, newer than every row there is, in the first
\* place that holds no row or a row in a terminal status
BlEnqueue ==
    /\ \E k \in BacklogSlots :
          /\ BlStatus(BlPlaces[k]) \in {"none"} \cup Terminal
          /\ \A j \in 1..(k - 1) : BlStatus(BlPlaces[j]) \notin {"none"} \cup Terminal
          /\ LET i == BlPlaces[k]
             IN bl' = [bl EXCEPT !.rows = (i :> NewRow(i, [command |-> <<"ping">>,
                                                          payload |-> JObj(<<>>),
                                                          signed |-> "fabric"])) @@ @,
                                 !.order = Append(@, i),
                                 !.last = i,
                                 !.waited = @ \ {i}]
    /\ UNCHANGED BlOthers

BlNext == BlStep \/ BlEnqueue

\* every await of the worker settles; the issuer owes nothing
BacklogSpec == BlInit /\ [][BlNext]_vars /\ WF_vars(BlStep)

-----------------------------------------------------------------------------
(* Properties of the backlog *)

\* C40: with the kill switch off and every backend call succeeding, under
\* weak fairness of the worker, every queued row of the worker reaches a
\* terminal status, however many newer rows are created meanwhile and
\* also when the backlog is longer than the limit of the listing.
StarvesNoCommand ==
    \A i \in BacklogSlots : (BlStatus(i) = "queued") ~> (BlStatus(i) \in Terminal)

\* C40 witness: a row that a listing left out, because ListLimit older rows
\* were queued, has reached a terminal status
LeftOutRowFinished ==
    /\ bl # BlIdle
    /\ \E i \in bl.waited : BlStatus(i) \in Terminal

=============================================================================
